---- MODULE Spec2Model ----
(***************************************************************************)
(* The time-integration and propagation-mode dispatch core of the MD       *)
(* engine: the PropagationMode registry (PropagationModes.hpp), the        *)
(* filtered particle range (propagation.hpp) and the integrator state      *)
(* machine with its loop driver (the integrator translation unit stored    *)
(* in src/src/core/virtual_sites.hpp, lines 57-738).                       *)
(*                                                                         *)
(* Doubles (time_step, sim_time, the fluid's tau) are integers here: the   *)
(* model counts in a fixed quantum, and the unset sentinel is -1.          *)
(***************************************************************************)
EXTENDS Integers, Sequences, FiniteSets, TLC

(* ------------------------------------------------------------------ *)
(* PropagationMode registry                                            *)
(* ------------------------------------------------------------------ *)
NONE == 0
TRANS_SYSTEM_DEFAULT == 1
TRANS_LANGEVIN == 2
TRANS_VS_RELATIVE == 4
TRANS_LB_MOMENTUM_EXCHANGE == 8
TRANS_LB_TRACER == 16
TRANS_BROWNIAN == 32
TRANS_STOKESIAN == 64
ROT_LANGEVIN == 128
ROT_VS_RELATIVE == 256
ROT_BROWNIAN == 512
\* Used by the integrator under #ifdef NPT but absent from the enum of
\* PropagationModes.hpp: the next free bit of the registry.
TRANS_LANGEVIN_NPT == 1024

\* Number of flags of the enum (bits 0..9): the masks of the registry are
\* 0 .. 2^NumRegistryFlags - 1.
NumRegistryFlags == 10

RECURSIVE Pow2(_)
Pow2(n) == IF n = 0 THEN 1 ELSE 2 * Pow2(n - 1)

\* C++ bitwise & and | on non-negative ints.
RECURSIVE BitAnd(_, _)
BitAnd(a, b) ==
    IF a = 0 \/ b = 0 THEN 0
    ELSE (a % 2) * (b % 2) + 2 * BitAnd(a \div 2, b \div 2)

RECURSIVE BitOr(_, _)
BitOr(a, b) ==
    IF a = 0 THEN b
    ELSE IF b = 0 THEN a
    ELSE (IF (a % 2) + (b % 2) > 0 THEN 1 ELSE 0) + 2 * BitOr(a \div 2, b \div 2)

\* C++ truth of an int.
Truthy(x) == x # 0

is_valid_propagation_combination_NoCross(propagation) ==
    IF propagation = 0 THEN TRUE
    ELSE IF ~Truthy(BitAnd(propagation, propagation - 1)) THEN TRUE
    ELSE IF \/ propagation = TRANS_LANGEVIN + ROT_LANGEVIN
            \/ propagation = TRANS_VS_RELATIVE + ROT_VS_RELATIVE
            \/ propagation = TRANS_BROWNIAN + ROT_BROWNIAN THEN TRUE
    ELSE IF propagation = TRANS_LB_MOMENTUM_EXCHANGE + TRANS_VS_RELATIVE THEN TRUE
    ELSE IF \/ propagation = TRANS_LB_MOMENTUM_EXCHANGE + TRANS_VS_RELATIVE + ROT_LANGEVIN
            \/ propagation = TRANS_LB_MOMENTUM_EXCHANGE + TRANS_VS_RELATIVE + ROT_VS_RELATIVE
         THEN TRUE
    ELSE FALSE

is_valid_propagation_combination(propagation) ==
    IF propagation = 0 THEN TRUE
    ELSE IF ~Truthy(BitAnd(propagation, propagation - 1)) THEN TRUE
    ELSE IF \/ propagation = TRANS_LANGEVIN + ROT_LANGEVIN
            \/ propagation = TRANS_VS_RELATIVE + ROT_VS_RELATIVE
            \/ propagation = TRANS_BROWNIAN + ROT_BROWNIAN THEN TRUE
    ELSE IF \/ propagation = TRANS_VS_RELATIVE + ROT_LANGEVIN
            \/ propagation = TRANS_LANGEVIN + ROT_VS_RELATIVE THEN TRUE
    ELSE IF propagation = TRANS_LB_MOMENTUM_EXCHANGE + TRANS_VS_RELATIVE THEN TRUE
    ELSE IF \/ propagation = TRANS_LB_MOMENTUM_EXCHANGE + TRANS_VS_RELATIVE + ROT_LANGEVIN
            \/ propagation = TRANS_LB_MOMENTUM_EXCHANGE + TRANS_VS_RELATIVE + ROT_VS_RELATIVE
         THEN TRUE
    ELSE FALSE

\* PropagationPredicate<criterion>: the filter of ParticleRangeFiltered.
PropagationPredicate(criterion, p) == Truthy(BitAnd(p, criterion))


(* ------------------------------------------------------------------ *)
(* Integrator constants (integrate.hpp, thermostat.hpp)                *)
(* ------------------------------------------------------------------ *)
INTEG_METHOD_NPT_ISO == "NPT_ISO"
INTEG_METHOD_NVT == "NVT"
INTEG_METHOD_STEEPEST_DESCENT == "STEEPEST_DESCENT"
INTEG_METHOD_BD == "BD"
INTEG_METHOD_SD == "SD"
\* A value of integ_switch that no case label of the switches recognizes.
INTEG_METHOD_UNKNOWN == "UNKNOWN"

RecognizedIntegMethods ==
    {INTEG_METHOD_NVT, INTEG_METHOD_NPT_ISO, INTEG_METHOD_BD, INTEG_METHOD_SD,
     INTEG_METHOD_STEEPEST_DESCENT}

\* The integrators that propagate the particles in time.
DynamicsIntegrators ==
    {INTEG_METHOD_NVT, INTEG_METHOD_NPT_ISO, INTEG_METHOD_BD, INTEG_METHOD_SD}

INTEG_REUSE_FORCES_NEVER == "NEVER"
INTEG_REUSE_FORCES_CONDITIONALLY == "CONDITIONALLY"
INTEG_REUSE_FORCES_ALWAYS == "ALWAYS"

ReusePolicies ==
    {INTEG_REUSE_FORCES_NEVER, INTEG_REUSE_FORCES_CONDITIONALLY,
     INTEG_REUSE_FORCES_ALWAYS}

INTEG_ERROR_RUNTIME == -1
INTEG_ERROR_SIGINT == -2

THERMO_OFF == 0
THERMO_LANGEVIN == 1
THERMO_NPT_ISO == 4
THERMO_BROWNIAN == 16
THERMO_SD == 32

ThermoValues == {THERMO_OFF, THERMO_LANGEVIN, THERMO_NPT_ISO, THERMO_BROWNIAN, THERMO_SD}

CUBOID == "CUBOID"
LEES_EDWARDS == "LEES_EDWARDS"

(* ------------------------------------------------------------------ *)
(* Bounds of the model                                                 *)
(* ------------------------------------------------------------------ *)
\* Number of local particles.
NParticles == 1
\* Largest n_steps passed to integrate.
MaxSteps == 2
\* integrate is not started when it could carry sim_time beyond this.
MaxSimTime == 2
\* Number of local particles at the start of integrate.
NStartParticles == 2
\* Largest number of MD steps of a behaviour in which the fluid propagations are
\* observed.
MaxMdSteps == 6

(* ------------------------------------------------------------------ *)
(* State                                                               *)
(* ------------------------------------------------------------------ *)
VARIABLES
    ROTATION,             \* build configuration: #ifdef ROTATION
    integ_switch,         \* int integ_switch
    default_propagation,  \* static int default_propagation
    used_propagations,    \* int used_propagations
    time_step,            \* static double time_step
    sim_time,             \* static double sim_time
    recalc_forces,        \* bool recalc_forces
    thermo_switch,        \* thermostat.hpp: int thermo_switch
    lb_tau,               \* 0: LB::get_lattice_switch() = NONE; > 0: LB::get_tau()
    particles,            \* cell_structure.local_particles(): p.propagation()
    pc,                   \* position inside integrate ("idle": not running)
    n_steps, reuse_forces, step, integrated_steps, caught_error,  \* locals of integrate
    applied1,             \* kernels applied to each particle by the latest integrator_step_1
    applied2,             \* kernels applied to each particle by the latest integrator_step_2
    last,                 \* the latest call into the integrator: [op, arg, ret, events]
    switch_dirty,         \* the dirty flag of the latest set_integ_switch: "pending" until
                          \* a force_calc runs, then "initial" or "loop" for the rest of the
                          \* integrate call whose initial or in-loop force_calc served it
    box_type,             \* box_geo.type()
    protocol,             \* LeesEdwards::protocol ("null": nullptr)
    n_ranks,              \* comm_cart.size()
    ek_tau,               \* 0: EK::ek_container empty; > 0: the time unit of the EK solver
    max_cut,              \* maximal_cutoff(...)
    max_range,            \* min_element(cell_structure.max_cutoff())
    skin,                 \* double skin
    skin_set,             \* static bool skin_set
    ctrl_C,               \* volatile std::sig_atomic_t ctrl_C
    signal_pending,       \* a SIGINT was delivered and no integrate call has ended with
                          \* the interrupt outcome since
    ctrl_C_at_entry,      \* observation: ctrl_C when the latest integrate call was made
    fluid_step,           \* static int fluid_step
    ek_step,              \* static int ek_step
    caught_sigint,        \* local of integrate
    handler,              \* frame of integrate_with_signal_handler ("idle": not running)
    box_le_params,        \* the sim_time and protocol of the latest
                          \* box_geo.lees_edwards_update (time -1: never called)
    applied_le,           \* Lees-Edwards kernels run on each particle in the latest
                          \* loop iteration
    resort_particles,     \* cell_structure.get_resort_particles()
    lb_log                \* observation, kept while lb_log.on: the MD steps completed
                          \* and the LB propagate() calls made since the start

vars ==
    <<ROTATION, integ_switch, default_propagation, used_propagations, time_step,
      sim_time, recalc_forces, thermo_switch, lb_tau, particles, pc, n_steps,
      reuse_forces, step, integrated_steps, caught_error, applied1, applied2,
      last, switch_dirty, box_type, protocol, n_ranks, ek_tau, max_cut, max_range,
      skin, skin_set, ctrl_C, signal_pending, ctrl_C_at_entry, fluid_step, ek_step, caught_sigint,
      handler, box_le_params, applied_le, resort_particles, lb_log>>

\* The integrator's globals and the collaborators' state.
globals ==
    <<integ_switch, default_propagation, used_propagations, time_step, sim_time,
      recalc_forces>>

locals ==
    <<n_steps, reuse_forces, step, integrated_steps, caught_error, caught_sigint>>

\* The box, the deployment and the skin.
surroundings ==
    <<box_type, protocol, n_ranks, ek_tau, max_cut, max_range, skin, skin_set>>

\* The interrupt latch.
latch == <<ctrl_C, signal_pending, ctrl_C_at_entry>>

\* The counters of the coupled solvers, and the fluid propagations they led to.
counters == <<fluid_step, ek_step, lb_log>>

\* The Lees-Edwards parameters of the box, the Lees-Edwards kernels run and the
\* resort level of the cell structure.
shear == <<box_le_params, applied_le, resort_particles>>

RESORT_NONE == "RESORT_NONE"
RESORT_LOCAL == "RESORT_LOCAL"

ParticleIds == 1..NParticles

NoKernels == [i \in DOMAIN particles |-> <<>>]

(* ------------------------------------------------------------------ *)
(* Lees-Edwards coordinator                                            *)
(* ------------------------------------------------------------------ *)
\* A variant that updates the box whatever its type.
update_box_params_AnyBox(type, time, p) == [time |-> time, protocol |-> p]

\* LeesEdwards::update_box_params with the box of the given type: the Lees-Edwards
\* parameters of the box afterwards, computed for the given time from protocol p.
update_box_params(type, time, p) ==
    IF type = LEES_EDWARDS
    THEN [time |-> time, protocol |-> p]
    ELSE box_le_params

\* A variant that runs the kernel whatever the type of the box.
run_kernel_AnyBox(kernel) == [i \in DOMAIN particles |-> applied_le[i] \o <<kernel>>]

\* LeesEdwards::run_kernel<Kernel>: the kernels run on each local particle
\* afterwards.
run_kernel(kernel) ==
    IF box_type = LEES_EDWARDS
    THEN [i \in DOMAIN particles |-> applied_le[i] \o <<kernel>>]
    ELSE applied_le

(* ------------------------------------------------------------------ *)
(* Propagation dispatcher                                              *)
(* ------------------------------------------------------------------ *)
\* A variant that hands the default propagation to every particle, default-tagged
\* or not.
should_propagate_with_DefaultForAll(propagation, mode) ==
    \/ Truthy(BitAnd(propagation, mode))
    \/ Truthy(BitAnd(default_propagation, mode))

should_propagate_with(propagation, mode) ==
    \/ Truthy(BitAnd(propagation, mode))
    \/ /\ Truthy(BitAnd(default_propagation, mode))
       /\ Truthy(BitAnd(propagation, TRANS_SYSTEM_DEFAULT))

\* per_particle_integration of integrator_step_1 when its particle loop starts.
per_particle_integration_1_NoDefault ==
    TRANS_LANGEVIN + ROT_LANGEVIN + TRANS_BROWNIAN + ROT_BROWNIAN

per_particle_integration_1 ==
    LET per_particle_integration ==
            TRANS_LANGEVIN + ROT_LANGEVIN + TRANS_BROWNIAN + ROT_BROWNIAN
        does_default_contain_splittable ==
            Truthy(BitAnd(per_particle_integration, default_propagation))
    IN  IF does_default_contain_splittable
        THEN per_particle_integration + TRANS_SYSTEM_DEFAULT
        ELSE per_particle_integration

\* per_particle_integration of integrator_step_2 when its particle loop starts.
per_particle_integration_2 ==
    LET per_particle_integration == TRANS_LANGEVIN + ROT_LANGEVIN
        does_default_contain_splittable ==
            Truthy(BitAnd(per_particle_integration, default_propagation))
    IN  IF does_default_contain_splittable
        THEN per_particle_integration + TRANS_SYSTEM_DEFAULT
        ELSE per_particle_integration

KernelIf(cond, kernel) == IF cond THEN <<kernel>> ELSE <<>>

\* The body of the particle loop of integrator_step_1 for one particle.
Step1LoopKernels(p) ==
    IF Truthy(BitAnd(p, per_particle_integration_1))
    THEN KernelIf(should_propagate_with(p, TRANS_LANGEVIN),
                  "velocity_verlet_propagate_vel_pos_par")
         \o KernelIf(should_propagate_with(p, ROT_LANGEVIN),
                     "propagate_omega_quat_particle")
         \o KernelIf(should_propagate_with(p, TRANS_BROWNIAN),
                     "brownian_dynamics_propagator")
         \o KernelIf(should_propagate_with(p, ROT_BROWNIAN),
                     "brownian_dynamics_rotator")
    ELSE <<>>

\* #ifdef NPT block of integrator_step_1: the kernel runs over the filtered range.
Step1NptKernels(p) ==
    KernelIf(/\ Truthy(BitAnd(default_propagation, TRANS_LANGEVIN_NPT))
             /\ PropagationPredicate(TRANS_SYSTEM_DEFAULT + TRANS_LANGEVIN_NPT, p),
             "velocity_verlet_npt_step_1")

\* #ifdef STOKESIAN_DYNAMICS block of integrator_step_1.
Step1StokesianKernels(p) ==
    KernelIf(/\ Truthy(BitAnd(default_propagation, TRANS_STOKESIAN))
             /\ PropagationPredicate(TRANS_STOKESIAN + TRANS_SYSTEM_DEFAULT, p),
             "stokesian_dynamics_step_1")

\* The body of the particle loop of integrator_step_2 for one particle.
Step2LoopKernels(p) ==
    IF Truthy(BitAnd(p, per_particle_integration_2))
    THEN KernelIf(should_propagate_with(p, TRANS_LANGEVIN),
                  "velocity_verlet_propagate_vel_final_par")
         \o KernelIf(should_propagate_with(p, ROT_LANGEVIN),
                     "convert_torque_propagate_omega")
    ELSE <<>>

Step2NptKernels(p) ==
    KernelIf(/\ Truthy(BitAnd(default_propagation, TRANS_LANGEVIN_NPT))
             /\ PropagationPredicate(TRANS_SYSTEM_DEFAULT + TRANS_LANGEVIN_NPT, p),
             "velocity_verlet_npt_step_2")

(* ------------------------------------------------------------------ *)
(* Sanity checks                                                       *)
(* ------------------------------------------------------------------ *)
RECURSIVE OrOfMasks(_, _)
OrOfMasks(ps, i) ==
    IF i > Len(ps) THEN 0 ELSE BitOr(ps[i], OrOfMasks(ps, i + 1))

\* A variant that leaves the default propagation out.
get_used_propagations_MasksOnly(ps) == OrOfMasks(ps, 1)

\* A variant that leaves used_propagations as the previous call computed it.
get_used_propagations_Stale(ps) == used_propagations

\* The value get_used_propagations leaves in used_propagations.
get_used_propagations(ps) ==
    LET used == OrOfMasks(ps, 1)
    IN  IF Truthy(BitAnd(used, TRANS_SYSTEM_DEFAULT))
        THEN BitOr(used, default_propagation)
        ELSE used

\* Whether propagation_sanity_checks reports a runtime error.
propagation_sanity_checks(used) ==
    /\ Truthy(BitAnd(used, TRANS_LANGEVIN_NPT))
    /\ Truthy(BitAnd(used, TRANS_BROWNIAN + TRANS_LANGEVIN + TRANS_STOKESIAN))

\* The runtime error propagation_sanity_checks reports.
propagation_sanity_errors(used) ==
    KernelIf(propagation_sanity_checks(used),
             "Langevin NPT translation is incompatible with other translation modes")

\* The runtime errors the switch over integ_switch in integrator_sanity_checks
\* reports.
integ_switch_sanity_errors ==
       CASE integ_switch = INTEG_METHOD_STEEPEST_DESCENT ->
              KernelIf(thermo_switch # THERMO_OFF,
                       "The steepest descent integrator is incompatible with thermostats")
         [] integ_switch = INTEG_METHOD_NVT ->
              KernelIf(Truthy(BitAnd(thermo_switch,
                                     BitOr(THERMO_NPT_ISO, BitOr(THERMO_BROWNIAN, THERMO_SD)))),
                       "The VV integrator is incompatible with the currently active combination of thermostats")
         [] integ_switch = INTEG_METHOD_NPT_ISO ->
              KernelIf(thermo_switch # THERMO_OFF /\ thermo_switch # THERMO_NPT_ISO,
                       "The NpT integrator requires the NpT thermostat")
              \o KernelIf(box_type = LEES_EDWARDS,
                          "The NpT integrator cannot use Lees-Edwards")
         [] integ_switch = INTEG_METHOD_BD ->
              KernelIf(thermo_switch # THERMO_BROWNIAN,
                       "The BD integrator requires the BD thermostat")
         [] integ_switch = INTEG_METHOD_SD ->
              KernelIf(thermo_switch # THERMO_OFF /\ thermo_switch # THERMO_SD,
                       "The SD integrator requires the SD thermostat")
         [] OTHER -> <<"Unknown value for integ_switch">>

\* A variant that returns after the first problem found.
integrator_sanity_errors_StopAtFirst ==
    IF time_step < 0 THEN <<"time_step not set">> ELSE integ_switch_sanity_errors

\* The runtime errors integrator_sanity_checks reports, in the order reported:
\* the time-step check, then the switch over integ_switch.
integrator_sanity_errors ==
    KernelIf(time_step < 0, "time_step not set") \o integ_switch_sanity_errors

\* A variant in which the sanity checks never report.
integrator_sanity_checks_Silent == FALSE

\* Whether integrator_sanity_checks reports a runtime error.
integrator_sanity_checks == integrator_sanity_errors # <<>>

(* ------------------------------------------------------------------ *)
(* Initial state: the static initializers of the integrator            *)
(* ------------------------------------------------------------------ *)
LocalsIdle ==
    /\ n_steps = 0
    /\ reuse_forces = INTEG_REUSE_FORCES_CONDITIONALLY
    /\ step = 0
    /\ integrated_steps = 0
    /\ caught_error = FALSE
    /\ caught_sigint = FALSE

\* The locals of integrate are dead once it has returned.
LocalsReset ==
    /\ n_steps' = 0
    /\ reuse_forces' = INTEG_REUSE_FORCES_CONDITIONALLY
    /\ step' = 0
    /\ integrated_steps' = 0
    /\ caught_error' = FALSE
    /\ caught_sigint' = FALSE

\* The frame of integrate_with_signal_handler: its arguments, the loop variable i,
\* the size of the chunk being integrated, the sizes of the chunks so far, and
\* the simulation time when it was called and when it last called integrate.
HandlerIdle ==
    [pc |-> "idle", n_steps |-> 0, reuse_forces |-> INTEG_REUSE_FORCES_CONDITIONALLY,
     update_accumulators |-> FALSE, i |-> 0, steps |-> 0, chunks |-> <<>>,
     sim_time_at_call |-> 0, sim_time_at_integrate |-> 0]

Call(op, arg, ret, events) == [op |-> op, arg |-> arg, ret |-> ret, events |-> events]

\* The state after the static initializers, in a deployment over ranks
\* processes whose interactions have the maximal cutoff cut.
InitProgram(ps, rot, ranks, cut) ==
    /\ ROTATION = rot
    /\ integ_switch = INTEG_METHOD_NVT
    /\ default_propagation = 0
    /\ used_propagations = 0
    /\ time_step = -1
    /\ sim_time = 0
    /\ recalc_forces = TRUE
    /\ thermo_switch = THERMO_OFF
    /\ lb_tau = 0
    /\ particles = ps
    /\ pc = "idle"
    /\ LocalsIdle
    /\ applied1 = NoKernels
    /\ applied2 = NoKernels
    /\ last = Call("start", <<>>, "ok", <<>>)
    /\ switch_dirty = "none"
    /\ box_type = CUBOID
    /\ protocol = "null"
    /\ n_ranks = ranks
    /\ ek_tau = 0
    /\ max_cut = cut
    /\ max_range = 2 * cut + 1
    /\ skin = 0
    /\ skin_set = FALSE
    /\ ctrl_C = 0
    /\ signal_pending = FALSE
    /\ ctrl_C_at_entry = 0
    /\ fluid_step = 0
    /\ box_le_params = [time |-> -1, protocol |-> "null"]
    /\ applied_le = NoKernels
    /\ resort_particles = RESORT_NONE
    /\ ek_step = 0
    /\ handler = HandlerIdle

\* A single process without interactions.
\* The observation of the fluid propagations, switched off and switched on.
LbLogOff == [on |-> FALSE, md_steps |-> 0, propagations |-> 0]

LbLogOn == [on |-> TRUE, md_steps |-> 0, propagations |-> 0]

InitState(ps, rot, ranks, cut) ==
    /\ InitProgram(ps, rot, ranks, cut)
    /\ lb_log = LbLogOff

InitWith(ps, rot) == InitState(ps, rot, 1, 0)

(* ------------------------------------------------------------------ *)
(* Setters of the integrator state                                     *)
(* ------------------------------------------------------------------ *)
Rot(flag) == IF ROTATION THEN flag ELSE 0

default_propagation_from_integ_BDFallsThrough(sw) ==
    CASE sw = INTEG_METHOD_STEEPEST_DESCENT ->
            [threw |-> FALSE, value |-> TRANS_LANGEVIN + Rot(ROT_LANGEVIN)]
      [] sw = INTEG_METHOD_NVT ->
            [threw |-> FALSE, value |-> TRANS_LANGEVIN + Rot(ROT_LANGEVIN)]
      [] sw = INTEG_METHOD_NPT_ISO ->
            [threw |-> FALSE, value |-> TRANS_LANGEVIN_NPT + Rot(ROT_LANGEVIN)]
      [] sw = INTEG_METHOD_BD ->
            [threw |-> FALSE, value |-> TRANS_STOKESIAN]
      [] sw = INTEG_METHOD_SD ->
            [threw |-> FALSE, value |-> TRANS_STOKESIAN]
      [] OTHER ->
            [threw |-> TRUE, value |-> default_propagation]

\* default_propagation_from_integ with integ_switch = sw: whether it throws, and
\* the value default_propagation holds afterwards.
default_propagation_from_integ(sw) ==
    CASE sw = INTEG_METHOD_STEEPEST_DESCENT ->
            \* "default_propagation = 0; // should not be used" has no break:
            \* control falls through into the NVT case, which overwrites it.
            LET after_steepest_descent == 0
                after_nvt == TRANS_LANGEVIN
            IN  [threw |-> FALSE, value |-> after_nvt + Rot(ROT_LANGEVIN)]
      [] sw = INTEG_METHOD_NVT ->
            [threw |-> FALSE, value |-> TRANS_LANGEVIN + Rot(ROT_LANGEVIN)]
      [] sw = INTEG_METHOD_NPT_ISO ->
            [threw |-> FALSE, value |-> TRANS_LANGEVIN_NPT + Rot(ROT_LANGEVIN)]
      [] sw = INTEG_METHOD_BD ->
            [threw |-> FALSE, value |-> TRANS_BROWNIAN + Rot(ROT_BROWNIAN)]
      [] sw = INTEG_METHOD_SD ->
            [threw |-> FALSE, value |-> TRANS_STOKESIAN]
      [] OTHER ->
            [threw |-> TRUE, value |-> default_propagation]

\* What set_integ_switch stores in recalc_forces.
recalc_forces_after_switch_Kept == recalc_forces

recalc_forces_after_switch == TRUE

set_integ_switch(value) ==
    /\ pc = "idle"
    /\ integ_switch' = value
    /\ recalc_forces' = recalc_forces_after_switch
    /\ switch_dirty' = "pending"
    /\ LET r == default_propagation_from_integ(value)
       IN  /\ default_propagation' = r.value
           /\ last' = Call("set_integ_switch", value,
                           IF r.threw THEN "threw" ELSE "ok", <<>>)
    /\ UNCHANGED <<surroundings, latch, counters, handler>>
    /\ UNCHANGED shear
    /\ UNCHANGED <<ROTATION, used_propagations, time_step, sim_time, thermo_switch,
                   lb_tau, particles, pc, locals, applied1, applied2>>

\* LB::check_tau_time_step_consistency(tau, value) accepts: tau is at least the
\* time step and an integer multiple of it.
check_tau_time_step_consistency(tau, value) ==
    tau >= value /\ tau % value = 0

\* The guard of set_time_step's domain error.
time_step_is_rejected_NegativeOnly(value) == value < 0

time_step_is_rejected(value) == value <= 0

set_time_step_StoreFirst(value) ==
    /\ pc = "idle"
    /\ IF time_step_is_rejected(value)
       THEN /\ last' = Call("set_time_step", value, "threw", <<>>)
            /\ UNCHANGED time_step
       ELSE IF lb_tau # 0 /\ ~check_tau_time_step_consistency(lb_tau, value)
       THEN /\ last' = Call("set_time_step", value, "threw",
                            <<"store", "check_tau_time_step_consistency">>)
            /\ time_step' = value
       ELSE /\ time_step' = value
            /\ last' = Call("set_time_step", value, "ok",
                            (IF lb_tau # 0
                             THEN <<"store", "check_tau_time_step_consistency">>
                             ELSE <<"store">>)
                            \o <<"on_timestep_change">>)
    /\ UNCHANGED <<surroundings, latch, counters, handler>>
    /\ UNCHANGED shear
    /\ UNCHANGED <<ROTATION, integ_switch, default_propagation, used_propagations,
                   sim_time, recalc_forces, thermo_switch, lb_tau, particles, pc,
                   locals, applied1, applied2, switch_dirty>>

set_time_step(value) ==
    /\ pc = "idle"
    /\ IF time_step_is_rejected(value)
       THEN /\ last' = Call("set_time_step", value, "threw", <<>>)
            /\ UNCHANGED time_step
       ELSE IF lb_tau # 0 /\ ~check_tau_time_step_consistency(lb_tau, value)
       THEN /\ last' = Call("set_time_step", value, "threw",
                            <<"check_tau_time_step_consistency">>)
            /\ UNCHANGED time_step
       ELSE /\ time_step' = value
            /\ last' = Call("set_time_step", value, "ok",
                            (IF lb_tau # 0
                             THEN <<"check_tau_time_step_consistency">>
                             ELSE <<>>)
                            \o <<"store", "on_timestep_change">>)
    /\ UNCHANGED <<surroundings, latch, counters, handler>>
    /\ UNCHANGED shear
    /\ UNCHANGED <<ROTATION, integ_switch, default_propagation, used_propagations,
                   sim_time, recalc_forces, thermo_switch, lb_tau, particles, pc,
                   locals, applied1, applied2, switch_dirty>>

set_time(value) ==
    /\ pc = "idle"
    /\ sim_time' = value
    /\ recalc_forces' = TRUE
    /\ last' = Call("set_time", value, "ok", <<"update_box_params">>)
    /\ box_le_params' = update_box_params(box_type, value, protocol)
    /\ UNCHANGED <<surroundings, latch, counters, handler>>
    /\ UNCHANGED <<applied_le, resort_particles>>
    /\ UNCHANGED <<ROTATION, integ_switch, default_propagation, used_propagations,
                   time_step, thermo_switch, lb_tau, particles, pc, locals,
                   applied1, applied2, switch_dirty>>

set_skin(value) ==
    /\ pc = "idle"
    /\ handler.pc = "idle"
    /\ skin' = value
    /\ skin_set' = TRUE
    /\ last' = Call("set_skin", value, "ok", <<"on_skin_change">>)
    /\ UNCHANGED <<box_type, protocol, n_ranks, ek_tau, max_cut, max_range>>
    /\ UNCHANGED <<latch, counters, handler, shear>>
    /\ UNCHANGED <<ROTATION, globals, thermo_switch, lb_tau, particles, pc, locals,
                   applied1, applied2, switch_dirty>>

(* ------------------------------------------------------------------ *)
(* Collaborators' state, changed from outside the integrator           *)
(* ------------------------------------------------------------------ *)
\* The thermostat configuration changes.
SetThermo(t) ==
    /\ pc = "idle"
    /\ thermo_switch # t
    /\ thermo_switch' = t
    /\ UNCHANGED <<surroundings, latch, counters, handler>>
    /\ UNCHANGED shear
    /\ UNCHANGED <<ROTATION, globals, lb_tau, particles, pc, locals, applied1,
                   applied2, last, switch_dirty>>

\* A lattice fluid with time unit tau is activated (tau > 0) or removed (tau = 0);
\* an activated fluid is consistent with a time step that is already set.
SetLattice(tau) ==
    /\ pc = "idle"
    /\ lb_tau # tau
    /\ tau # 0 /\ time_step > 0 => check_tau_time_step_consistency(tau, time_step)
    /\ lb_tau' = tau
    /\ UNCHANGED <<surroundings, latch, counters, handler>>
    /\ UNCHANGED shear
    /\ UNCHANGED <<ROTATION, globals, thermo_switch, particles, pc, locals,
                   applied1, applied2, last, switch_dirty>>

\* An electrokinetic solver with time unit tau is added to the empty
\* EK::ek_container (tau > 0), or the container is emptied (tau = 0).
SetElectrokinetics(tau) ==
    /\ pc = "idle"
    /\ ek_tau # tau
    /\ ek_tau' = tau
    /\ UNCHANGED <<box_type, protocol, n_ranks, max_cut, max_range, skin, skin_set>>
    /\ UNCHANGED <<latch, counters, handler, shear>>
    /\ UNCHANGED <<ROTATION, globals, thermo_switch, lb_tau, particles, pc, locals,
                   applied1, applied2, last, switch_dirty>>

(* ------------------------------------------------------------------ *)
(* integrate(n_steps, reuse_forces)                                    *)
(* ------------------------------------------------------------------ *)
AddEvents(es) == [last EXCEPT !.events = @ \o es]

Return(value, es) ==
    /\ pc' = "idle"
    /\ last' = [last EXCEPT !.ret = value, !.events = es]
    /\ LocalsReset

\* Whether on_integration_start reports a runtime error: it runs the sanity
\* checks of the active algorithms, of which the integrator's are modelled.
on_integration_start == integrator_sanity_checks

\* force_calc marks the forces as up to date.
recalc_forces_after_force_calc == FALSE

\* Entry of integrate up to its first check_runtime_errors: on_integration_start,
\* then the used propagations are collected and checked. The runtime errors
\* reported follow, in the events, the check that reported them.
integrate_entry(ns, rf) ==
    /\ pc = "idle"
    /\ LET used == get_used_propagations(particles)
           errors == on_integration_start \/ propagation_sanity_checks(used)
           es == <<"on_integration_start">> \o integrator_sanity_errors
                 \o <<"get_used_propagations", "propagation_sanity_checks">>
                 \o propagation_sanity_errors(used)
                 \o <<"check_runtime_errors">>
       IN  /\ used_propagations' = used
           /\ IF errors
              THEN /\ pc' = "idle"
                   /\ last' = Call("integrate", <<>>, INTEG_ERROR_RUNTIME, es)
                   /\ LocalsReset
              ELSE /\ pc' = "init_force"
                   /\ last' = Call("integrate", <<>>, "running", es)
                   /\ n_steps' = ns
                   /\ reuse_forces' = rf
                   /\ step' = 0
                   /\ integrated_steps' = 0
                   /\ caught_error' = FALSE
                   /\ caught_sigint' = FALSE
    /\ applied1' = NoKernels
    /\ applied2' = NoKernels
    /\ switch_dirty' = IF switch_dirty = "pending" THEN "pending" ELSE "none"
    /\ applied_le' = NoKernels
    /\ ctrl_C_at_entry' = ctrl_C
    /\ UNCHANGED <<surroundings, ctrl_C, signal_pending, counters>>
    /\ UNCHANGED <<box_le_params, resort_particles>>
    /\ UNCHANGED <<ROTATION, integ_switch, default_propagation, time_step, sim_time,
                   recalc_forces, thermo_switch, lb_tau, particles>>

\* integrate called directly, outside integrate_with_signal_handler.
IntegrateCall(ns, rf) ==
    /\ handler.pc = "idle"
    /\ IF lb_log.on
       THEN lb_log.md_steps + ns <= MaxMdSteps
       ELSE time_step > 0 => sim_time + ns * time_step <= MaxSimTime
    /\ integrate_entry(ns, rf)
    /\ UNCHANGED handler

\* The condition of the "Initial Force Calculation" block.
initial_force_calculation_DirtyOnly ==
    recalc_forces /\ reuse_forces # INTEG_REUSE_FORCES_ALWAYS

initial_force_calculation ==
    \/ reuse_forces = INTEG_REUSE_FORCES_NEVER
    \/ recalc_forces /\ reuse_forces # INTEG_REUSE_FORCES_ALWAYS

\* cells_update_ghosts carries out the resort that was requested: the resort
\* level of the cell structure afterwards.
resort_particles_after_ghost_update == RESORT_NONE

\* The initial force calculation, lb_lbcoupling_activate and the second
\* check_runtime_errors; force_calc leaves the forces up to date. A collaborator
\* may have reported a runtime error.
InitialForce ==
    /\ pc = "init_force"
    /\ LET do == initial_force_calculation
           es == IF do
                 THEN <<"lb_lbcoupling_deactivate", "virtual_sites_update",
                        "cells_update_ghosts", "force_calc">>
                      \o KernelIf(integ_switch # INTEG_METHOD_STEEPEST_DESCENT /\ ROTATION,
                                  "convert_initial_torques")
                 ELSE <<>>
           es2 == es \o <<"lb_lbcoupling_activate", "check_runtime_errors">>
       IN  /\ recalc_forces' = IF do THEN recalc_forces_after_force_calc
                               ELSE recalc_forces
           /\ switch_dirty' = IF do /\ switch_dirty = "pending" THEN "initial"
                              ELSE switch_dirty
           /\ \E error \in BOOLEAN :
                IF error
                THEN Return(INTEG_ERROR_RUNTIME, last.events \o es2)
                ELSE /\ pc' = "loop"
                     /\ last' = AddEvents(es2)
                     /\ UNCHANGED locals
           /\ resort_particles' = IF do THEN resort_particles_after_ghost_update
                                  ELSE resort_particles
    /\ UNCHANGED <<surroundings, latch, counters, handler>>
    /\ UNCHANGED <<box_le_params, applied_le>>
    /\ UNCHANGED <<ROTATION, integ_switch, default_propagation, used_propagations,
                   time_step, sim_time, thermo_switch, lb_tau, particles, applied1,
                   applied2>>

\* The loop condition; an iteration starts with LeesEdwards::update_box_params.
LoopHead ==
    /\ pc = "loop"
    /\ IF step < n_steps
       THEN /\ pc' = "step1"
            /\ last' = [last EXCEPT !.events =
                            IF step = 0 THEN @ \o <<"update_box_params">>
                            ELSE <<"update_box_params">>]
            /\ applied1' = NoKernels
            /\ applied2' = NoKernels
            /\ applied_le' = NoKernels
            /\ box_le_params' = update_box_params(box_type, sim_time, protocol)
       ELSE /\ pc' = "finish"
            /\ UNCHANGED <<last, applied1, applied2, applied_le, box_le_params>>
    /\ UNCHANGED <<surroundings, latch, counters, handler>>
    /\ UNCHANGED resort_particles
    /\ UNCHANGED <<ROTATION, globals, thermo_switch, lb_tau, particles, locals,
                   switch_dirty>>

\* The simulation time increment_sim_time(amount) leaves.
increment_sim_time_Twice(amount) == sim_time + amount + amount

increment_sim_time(amount) == sim_time + amount

\* integrator_step_1 returning early_exit: steepest descent delegates to
\* steepest_descent_step, which reports convergence or not and leaves the
\* simulation time to its caller; every other
\* integrator dispatches the kernels and advances the simulation time.
integrator_step_1(early_exit) ==
    IF integ_switch = INTEG_METHOD_STEEPEST_DESCENT
    THEN /\ early_exit \in BOOLEAN
         /\ UNCHANGED <<applied1, sim_time>>
    ELSE /\ early_exit = FALSE
         /\ applied1' = [i \in DOMAIN particles |->
                            Step1LoopKernels(particles[i])
                            \o Step1NptKernels(particles[i])
                            \o Step1StokesianKernels(particles[i])]
         /\ sim_time' = increment_sim_time(time_step)

IntegratorStep1 ==
    /\ pc = "step1"
    /\ \E early_exit \in BOOLEAN :
         /\ integrator_step_1(early_exit)
         /\ pc' = IF early_exit THEN "finish" ELSE "mid"
    /\ last' = AddEvents(<<"integrator_step_1">>)
    /\ UNCHANGED <<surroundings, latch, counters, handler>>
    /\ UNCHANGED shear
    /\ UNCHANGED <<ROTATION, integ_switch, default_propagation, used_propagations,
                   time_step, recalc_forces, thermo_switch, lb_tau, particles,
                   locals, applied2, switch_dirty>>

\* A variant that takes the resort decision under every integrator.
resort_is_decided_Always == TRUE

\* Whether the loop calls resort_particles_if_needed.
resort_is_decided == integ_switch # INTEG_METHOD_NPT_ISO

\* resort_particles_if_needed: the resort level afterwards, check_resort_required
\* having answered required.
resort_particles_if_needed(required) ==
    IF required THEN RESORT_LOCAL ELSE resort_particles

\* The Lees-Edwards push and the resort decision (not under NpT).
PushAndResort ==
    /\ pc = "mid"
    /\ applied_le' = run_kernel("Push")
    /\ IF resort_is_decided
       THEN /\ \E required \in BOOLEAN :
                 resort_particles' = resort_particles_if_needed(required)
            /\ last' = AddEvents(<<"run_kernel_Push", "resort_particles_if_needed">>)
       ELSE /\ UNCHANGED resort_particles
            /\ last' = AddEvents(<<"run_kernel_Push">>)
    /\ pc' = "ghosts"
    /\ UNCHANGED <<surroundings, latch, counters, handler>>
    /\ UNCHANGED box_le_params
    /\ UNCHANGED <<ROTATION, globals, thermo_switch, lb_tau, particles, locals,
                   applied1, applied2, switch_dirty>>

\* A variant that recomputes the forces before the ghosts are exchanged.
ghosts_and_forces_ForcesFirst ==
    <<"philox_counter_increment", "virtual_sites_update", "force_calc",
      "cells_update_ghosts", "after_force_calc">>

\* The calls from the RNG counters to after_force_calc, in their order.
ghosts_and_forces ==
    <<"philox_counter_increment", "virtual_sites_update", "cells_update_ghosts",
      "force_calc", "after_force_calc">>

\* From the RNG counters to after_force_calc: virtual sites, ghost update (which
\* carries out a requested resort) and force calculation.
GhostsAndForces ==
    /\ pc = "ghosts"
    /\ last' = AddEvents(ghosts_and_forces)
    /\ recalc_forces' = recalc_forces_after_force_calc
    /\ switch_dirty' = IF switch_dirty = "pending" THEN "loop" ELSE switch_dirty
    /\ resort_particles' = resort_particles_after_ghost_update
    /\ pc' = "step2"
    /\ UNCHANGED <<surroundings, latch, counters, handler>>
    /\ UNCHANGED <<box_le_params, applied_le>>
    /\ UNCHANGED <<ROTATION, integ_switch, default_propagation, used_propagations,
                   time_step, sim_time, thermo_switch, lb_tau, particles, locals,
                   applied1, applied2>>

\* A variant without the early return of steepest descent.
integrator_step_2_NoEarlyReturn ==
    applied2' = [i \in DOMAIN particles |->
                    Step2LoopKernels(particles[i])
                    \o Step2NptKernels(particles[i])]

integrator_step_2 ==
    IF integ_switch = INTEG_METHOD_STEEPEST_DESCENT
    THEN UNCHANGED applied2
    ELSE applied2' = [i \in DOMAIN particles |->
                         Step2LoopKernels(particles[i])
                         \o Step2NptKernels(particles[i])]

IntegratorStep2 ==
    /\ pc = "step2"
    /\ integrator_step_2
    /\ last' = AddEvents(<<"integrator_step_2">>)
    /\ pc' = "post"
    /\ UNCHANGED <<surroundings, latch, counters, handler>>
    /\ UNCHANGED shear
    /\ UNCHANGED <<ROTATION, globals, thermo_switch, lb_tau, particles, locals,
                   applied1, switch_dirty>>

\* LB::get_steps_per_md_step and EK::get_steps_per_md_step: the solver's time
\* unit in time steps.
get_steps_per_md_step(tau) == tau \div time_step

\* A variant that resets the counter one step late.
counter_after_step_Late(counter, steps_per_md_step) ==
    IF counter + 1 > steps_per_md_step THEN 0 ELSE counter + 1

\* A solver's counter after one more MD step, given the solver's ratio.
counter_after_step(counter, steps_per_md_step) ==
    IF counter + 1 >= steps_per_md_step THEN 0 ELSE counter + 1

\* A variant that never takes the ratios of the two solvers as mismatching.
ratios_mismatch_Never(lb_steps_per_md_step, ek_steps_per_md_step) == FALSE

\* Whether integrate reports the ratios of the two solvers as mismatching.
ratios_mismatch(lb_steps_per_md_step, ek_steps_per_md_step) ==
    lb_steps_per_md_step # ek_steps_per_md_step

\* Whether "assert(fluid_step == ek_step)" is reached in this step and fails.
fluid_step_assertion_fails ==
    /\ integ_switch # INTEG_METHOD_STEEPEST_DESCENT
    /\ lb_tau # 0
    /\ ek_tau # 0
    /\ fluid_step # ek_step

\* "propagate one-step functionalities": the counters of the coupled solvers
\* afterwards, the collaborator calls made and whether the ratios of the two
\* solvers were reported as mismatching.
one_step_functionalities ==
    LET lb_active == lb_tau # 0
        ek_active == ek_tau # 0
        lb_steps_per_md_step == get_steps_per_md_step(lb_tau)
        ek_steps_per_md_step == get_steps_per_md_step(ek_tau)
        hooks == <<"after_lb_propagation", "handle_collisions", "process_queue">>
    IN  IF integ_switch = INTEG_METHOD_STEEPEST_DESCENT
        THEN [fluid_step |-> fluid_step, ek_step |-> ek_step, events |-> <<>>,
              mismatch |-> FALSE]
        ELSE IF lb_active /\ ek_active
        THEN LET fired == fluid_step + 1 >= lb_steps_per_md_step
                 mismatch == ratios_mismatch(lb_steps_per_md_step, ek_steps_per_md_step)
             IN  [fluid_step |-> counter_after_step(fluid_step, lb_steps_per_md_step),
                  ek_step |-> ek_step,
                  events |-> KernelIf(mismatch,
                                      "LB and EK are active but with different time steps.")
                             \o (IF fired THEN <<"LB_propagate", "EK_propagate">>
                                 ELSE <<>>)
                             \o <<"lb_lbcoupling_propagate">> \o hooks,
                  mismatch |-> mismatch]
        ELSE IF lb_active
        THEN LET fired == fluid_step + 1 >= lb_steps_per_md_step
             IN  [fluid_step |-> counter_after_step(fluid_step, lb_steps_per_md_step),
                  ek_step |-> ek_step,
                  events |-> KernelIf(fired, "LB_propagate")
                             \o <<"lb_lbcoupling_propagate">> \o hooks,
                  mismatch |-> FALSE]
        ELSE IF ek_active
        THEN LET fired == ek_step + 1 >= ek_steps_per_md_step
             IN  [fluid_step |-> fluid_step,
                  ek_step |-> counter_after_step(ek_step, ek_steps_per_md_step),
                  events |-> KernelIf(fired, "EK_propagate") \o hooks,
                  mismatch |-> FALSE]
        ELSE [fluid_step |-> fluid_step, ek_step |-> ek_step, events |-> hooks,
              mismatch |-> FALSE]

\* The poll of the runtime errors after a step: a collaborator reported one
\* during the step, or the ratios of the coupled solvers mismatched.
check_runtime_errors_after_step(collaborator_error, solvers) ==
    collaborator_error \/ solvers.mismatch

\* The condition under which the loop takes a SIGINT as caught.
sigint_is_caught_AnyRanks == ctrl_C = 1

sigint_is_caught ==
    LET singleton_mode == n_ranks = 1
    IN  singleton_mode /\ ctrl_C = 1

\* The rest of the iteration: Lees-Edwards offsets, the one-step functionalities,
\* the step count, the poll of the runtime errors and of the interrupt latch.
PostStep ==
    /\ pc = "post"
    /\ integrated_steps' = integrated_steps + 1
    /\ LET solvers == one_step_functionalities
       IN  /\ fluid_step' = solvers.fluid_step
           /\ ek_step' = solvers.ek_step
           /\ lb_log' =
                IF lb_log.on
                THEN [lb_log EXCEPT
                          !.md_steps = @ + 1,
                          !.propagations =
                              IF \E k \in 1..Len(solvers.events) :
                                     solvers.events[k] = "LB_propagate"
                              THEN @ + 1 ELSE @]
                ELSE lb_log
           /\ \E collaborator_error \in BOOLEAN :
                /\ last' = AddEvents(
                       <<"run_kernel_UpdateOffset">> \o solvers.events
                       \o <<"check_runtime_errors">>)
                /\ IF check_runtime_errors_after_step(collaborator_error, solvers)
                   THEN /\ caught_error' = TRUE
                        /\ pc' = "finish"
                        /\ UNCHANGED <<step, caught_sigint>>
                   ELSE IF sigint_is_caught
                   THEN /\ caught_sigint' = TRUE
                        /\ pc' = "finish"
                        /\ UNCHANGED <<step, caught_error>>
                   ELSE /\ UNCHANGED <<caught_error, caught_sigint>>
                        /\ step' = step + 1
                        /\ pc' = "loop"
    /\ applied_le' = run_kernel("UpdateOffset")
    /\ UNCHANGED <<surroundings, latch, handler>>
    /\ UNCHANGED <<box_le_params, resort_particles>>
    /\ UNCHANGED <<ROTATION, globals, thermo_switch, lb_tau, particles, n_steps,
                   reuse_forces, applied1, applied2, switch_dirty>>

\* The rest of the iteration in a build with assertions enabled, when
\* "assert(fluid_step == ek_step)" fails: after the Lees-Edwards offsets and the
\* report of mismatching ratios the process is aborted. (In a build with NDEBUG
\* the step goes on as in PostStep.)
PostStepAbort ==
    /\ pc = "post"
    /\ fluid_step_assertion_fails
    /\ pc' = "aborted"
    /\ last' = [last EXCEPT
                   !.ret = "aborted",
                   !.events = @ \o <<"run_kernel_UpdateOffset">>
                              \o KernelIf(ratios_mismatch(get_steps_per_md_step(lb_tau),
                                                          get_steps_per_md_step(ek_tau)),
                                          "LB and EK are active but with different time steps.")
                              \o <<"assert(fluid_step == ek_step)">>]
    /\ applied_le' = run_kernel("UpdateOffset")
    /\ UNCHANGED <<surroundings, latch, counters, handler>>
    /\ UNCHANGED <<box_le_params, resort_particles>>
    /\ UNCHANGED <<ROTATION, globals, thermo_switch, lb_tau, particles, locals,
                   applied1, applied2, switch_dirty>>

\* After the loop: box parameters, virtual sites, Verlet statistics, result.
\* The value integrate returns after the loop.
integrate_result ==
    IF caught_sigint THEN INTEG_ERROR_SIGINT
    ELSE IF caught_error THEN INTEG_ERROR_RUNTIME
    ELSE integrated_steps

\* A variant of the end of integrate without the recomputation of the box
\* parameters after the loop.
box_params_after_loop_Stale == box_le_params

\* The box parameters LeesEdwards::update_box_params leaves after the loop.
box_params_after_loop == update_box_params(box_type, sim_time, protocol)

\* What integrate leaves in the latch when it ends with the interrupt outcome.
ctrl_C_after_interrupt_Kept == ctrl_C

ctrl_C_after_interrupt == 0

\* A variant in which integrate clears the latch whenever it returns.
ctrl_C_after_loop_AlwaysReset == ctrl_C_after_interrupt

\* The latch integrate leaves when it returns after its loop: reset only with
\* the interrupt outcome.
ctrl_C_after_loop == IF caught_sigint THEN ctrl_C_after_interrupt ELSE ctrl_C

IntegrateReturn ==
    /\ pc = "finish"
    /\ Return(integrate_result,
              <<"update_box_params", "virtual_sites_update">>
              \o KernelIf(integ_switch = INTEG_METHOD_NPT_ISO, "synchronize_npt_state"))
    /\ ctrl_C' = ctrl_C_after_loop
    /\ signal_pending' = IF caught_sigint THEN FALSE ELSE signal_pending
    /\ UNCHANGED ctrl_C_at_entry
    /\ box_le_params' = box_params_after_loop
    /\ UNCHANGED <<surroundings, counters, handler>>
    /\ UNCHANGED <<applied_le, resort_particles>>
    /\ UNCHANGED <<ROTATION, globals, thermo_switch, lb_tau, particles, applied1,
                   applied2, switch_dirty>>

(* ------------------------------------------------------------------ *)
(* Lees-Edwards protocol and direct call of the sanity checks          *)
(* ------------------------------------------------------------------ *)
\* A variant that recomputes the box parameters before the box type and the
\* protocol are replaced.
set_protocol_UpdateFirst(new_protocol) ==
    /\ pc = "idle"
    /\ box_le_params' = update_box_params(box_type, sim_time, protocol)
    /\ box_type' = LEES_EDWARDS
    /\ protocol' = new_protocol
    /\ recalc_forces' = TRUE
    /\ resort_particles' = RESORT_LOCAL
    /\ last' = Call("set_protocol", new_protocol, "ok",
                    <<"update_box_params", "set_resort_particles">>)
    /\ UNCHANGED applied_le
    /\ UNCHANGED <<n_ranks, ek_tau, max_cut, max_range, skin, skin_set, latch,
                   counters, handler>>
    /\ UNCHANGED <<ROTATION, integ_switch, default_propagation, used_propagations,
                   time_step, sim_time, thermo_switch, lb_tau, particles, pc, locals,
                   applied1, applied2, switch_dirty>>

set_protocol(new_protocol) ==
    /\ pc = "idle"
    /\ box_type' = LEES_EDWARDS
    /\ protocol' = new_protocol
    /\ box_le_params' = update_box_params(LEES_EDWARDS, sim_time, new_protocol)
    /\ recalc_forces' = TRUE
    /\ resort_particles' = RESORT_LOCAL
    /\ last' = Call("set_protocol", new_protocol, "ok",
                    <<"update_box_params", "set_resort_particles">>)
    /\ UNCHANGED applied_le
    /\ UNCHANGED <<n_ranks, ek_tau, max_cut, max_range, skin, skin_set, latch,
                   counters, handler>>
    /\ UNCHANGED <<ROTATION, integ_switch, default_propagation, used_propagations,
                   time_step, sim_time, thermo_switch, lb_tau, particles, pc, locals,
                   applied1, applied2, switch_dirty>>

\* A variant that drops the protocol and leaves the type of the box.
unset_protocol_KeepsBoxType ==
    /\ pc = "idle"
    /\ protocol' = "null"
    /\ UNCHANGED box_type
    /\ recalc_forces' = TRUE
    /\ last' = Call("unset_protocol", <<>>, "ok", <<"set_resort_particles">>)
    /\ resort_particles' = RESORT_LOCAL
    /\ UNCHANGED <<box_le_params, applied_le>>
    /\ UNCHANGED <<n_ranks, ek_tau, max_cut, max_range, skin, skin_set, latch,
                   counters, handler>>
    /\ UNCHANGED <<ROTATION, integ_switch, default_propagation, used_propagations,
                   time_step, sim_time, thermo_switch, lb_tau, particles, pc, locals,
                   applied1, applied2, switch_dirty>>

unset_protocol ==
    /\ pc = "idle"
    /\ protocol' = "null"
    /\ box_type' = CUBOID
    /\ recalc_forces' = TRUE
    /\ last' = Call("unset_protocol", <<>>, "ok", <<"set_resort_particles">>)
    /\ resort_particles' = RESORT_LOCAL
    /\ UNCHANGED <<box_le_params, applied_le>>
    /\ UNCHANGED <<n_ranks, ek_tau, max_cut, max_range, skin, skin_set, latch,
                   counters, handler>>
    /\ UNCHANGED <<ROTATION, integ_switch, default_propagation, used_propagations,
                   time_step, sim_time, thermo_switch, lb_tau, particles, pc, locals,
                   applied1, applied2, switch_dirty>>

\* integrator_sanity_checks called on its own: the runtime errors it reported.
IntegratorSanityChecksCall ==
    /\ pc = "idle"
    /\ last' = Call("integrator_sanity_checks", <<>>, "ok", integrator_sanity_errors)
    /\ UNCHANGED <<surroundings, latch, counters, handler>>
    /\ UNCHANGED shear
    /\ UNCHANGED <<ROTATION, globals, thermo_switch, lb_tau, particles, pc, locals,
                   applied1, applied2, switch_dirty>>

(* ------------------------------------------------------------------ *)
(* integrate_with_signal_handler(n_steps, reuse_forces,                *)
(* update_accumulators), on the head node                              *)
(* ------------------------------------------------------------------ *)
\* A SIGINT is delivered while the SignalHandler of integrate_with_signal_handler
\* is installed: its handler sets the latch.
SigInt ==
    /\ handler.pc # "idle"
    /\ ctrl_C' = 1
    /\ signal_pending' = TRUE
    /\ UNCHANGED ctrl_C_at_entry
    /\ UNCHANGED <<surroundings, counters, handler>>
    /\ UNCHANGED shear
    /\ UNCHANGED <<ROTATION, globals, thermo_switch, lb_tau, particles, pc, locals,
                   applied1, applied2, last, switch_dirty>>

Min(a, b) == IF a <= b THEN a ELSE b

\* The skin the wrapper derives: min(0.4 * max_cut, max_range - max_cut).
derived_skin == Min((4 * max_cut) \div 10, max_range - max_cut)

HandlerReturn(value) ==
    /\ handler' = HandlerIdle
    /\ last' = Call("integrate_with_signal_handler",
                    <<handler.n_steps, handler.update_accumulators>>, value,
                    handler.chunks)

\* Entry of the wrapper up to its loop: the handler is installed, the call is
\* handed to integrate as it is (no accumulator updates, or no steps), or the
\* skin is derived when it was never set.
HandlerCall(ns, rf, update_accumulators) ==
    /\ pc = "idle"
    /\ handler.pc = "idle"
    /\ time_step > 0 => sim_time + ns * time_step <= MaxSimTime
    /\ LET frame == [pc |-> "loop", n_steps |-> ns, reuse_forces |-> rf,
                     update_accumulators |-> update_accumulators, i |-> 0,
                     steps |-> 0, chunks |-> <<>>, sim_time_at_call |-> sim_time,
                     sim_time_at_integrate |-> sim_time]
       IN  IF ~update_accumulators \/ ns = 0
           THEN /\ handler' = [frame EXCEPT !.pc = "direct"]
                /\ UNCHANGED <<skin, skin_set, last>>
           ELSE IF ~skin_set /\ max_cut <= 0
           THEN /\ handler' = HandlerIdle
                /\ last' = Call("integrate_with_signal_handler",
                                <<ns, update_accumulators>>, "threw", <<>>)
                /\ UNCHANGED <<skin, skin_set>>
           ELSE /\ handler' = frame
                /\ skin' = IF skin_set THEN skin ELSE derived_skin
                /\ skin_set' = TRUE
                /\ UNCHANGED last
    /\ UNCHANGED <<box_type, protocol, n_ranks, ek_tau, max_cut, max_range, latch,
                   counters, shear>>
    /\ UNCHANGED <<ROTATION, globals, thermo_switch, lb_tau, particles, pc, locals,
                   applied1, applied2, switch_dirty>>

\* "return integrate(n_steps, reuse_forces)": the call.
HandlerDirect ==
    /\ handler.pc = "direct"
    /\ integrate_entry(handler.n_steps, handler.reuse_forces)
    /\ handler' = [handler EXCEPT !.pc = "direct_wait",
                                  !.chunks = <<handler.n_steps>>,
                                  !.sim_time_at_integrate = sim_time]

\* "return integrate(n_steps, reuse_forces)": the result is handed on.
HandlerDirectReturn ==
    /\ handler.pc = "direct_wait"
    /\ pc = "idle"
    /\ HandlerReturn(last.ret)
    /\ UNCHANGED <<surroundings, latch, counters>>
    /\ UNCHANGED shear
    /\ UNCHANGED <<ROTATION, globals, thermo_switch, lb_tau, particles, pc, locals,
                   applied1, applied2, switch_dirty>>

\* The loop of the wrapper: integrate to the next accumulator update or to the
\* end, whichever comes first; after the last chunk the wrapper returns 0.
HandlerChunk ==
    /\ handler.pc = "loop"
    /\ handler.i < handler.n_steps
    /\ \E auto_update_next_update \in 1..MaxSteps :
         LET steps == Min(handler.n_steps - handler.i, auto_update_next_update)
         IN  /\ integrate_entry(steps, handler.reuse_forces)
             /\ handler' = [handler EXCEPT !.pc = "chunk", !.steps = steps,
                                           !.chunks = @ \o <<steps>>,
                                           !.sim_time_at_integrate = sim_time]

\* A variant that returns the number of steps the chunks were asked for.
wrapper_result_after_loop_Steps == handler.i

\* What the wrapper returns after its loop.
wrapper_result_after_loop == 0

HandlerLoopEnd ==
    /\ handler.pc = "loop"
    /\ handler.i >= handler.n_steps
    /\ pc = "idle"
    /\ HandlerReturn(wrapper_result_after_loop)
    /\ UNCHANGED <<surroundings, latch, counters>>
    /\ UNCHANGED shear
    /\ UNCHANGED <<ROTATION, globals, thermo_switch, lb_tau, particles, pc, locals,
                   applied1, applied2, switch_dirty>>

\* After a chunk: a negative result is handed on, otherwise the forces are
\* reused from now on, the accumulators are updated and i advances by the chunk.
HandlerAfterChunk ==
    /\ handler.pc = "chunk"
    /\ pc = "idle"
    /\ LET retval == last.ret
       IN  IF retval < 0
           THEN HandlerReturn(retval)
           ELSE /\ handler' = [handler EXCEPT
                                   !.pc = "loop",
                                   !.reuse_forces = INTEG_REUSE_FORCES_ALWAYS,
                                   !.i = @ + handler.steps]
                /\ last' = AddEvents(<<"auto_update">>)
    /\ UNCHANGED <<surroundings, latch, counters>>
    /\ UNCHANGED shear
    /\ UNCHANGED <<ROTATION, globals, thermo_switch, lb_tau, particles, pc, locals,
                   applied1, applied2, switch_dirty>>

(* ------------------------------------------------------------------ *)
(* Specifications                                                      *)
(* ------------------------------------------------------------------ *)
\* Masks of the particles of the integrator specification.
MaskSet ==
    {TRANS_SYSTEM_DEFAULT, TRANS_LANGEVIN + ROT_LANGEVIN, TRANS_STOKESIAN}

ParticleConfigs == [ParticleIds -> MaskSet]

IntegValues == RecognizedIntegMethods \cup {INTEG_METHOD_UNKNOWN}

\* Arguments of set_time_step, of set_time, and the tau of a lattice fluid
\* (0: no fluid), in quanta.
TimeStepValues == {-1, 0, 1, 2}

TimeValues == {0}

TauValues == {0, 1}

Init == \E ps \in ParticleConfigs, rot \in BOOLEAN : InitWith(ps, rot)

Next ==
    \/ \E v \in IntegValues : set_integ_switch(v)
    \/ \E v \in TimeStepValues : set_time_step(v)
    \/ \E v \in TimeValues : set_time(v)
    \/ \E t \in {THERMO_OFF, THERMO_BROWNIAN} : SetThermo(t)
    \/ \E tau \in TauValues : SetLattice(tau)
    \/ \E ns \in 0..MaxSteps, rf \in ReusePolicies : IntegrateCall(ns, rf)
    \/ InitialForce
    \/ LoopHead
    \/ IntegratorStep1
    \/ PushAndResort
    \/ GhostsAndForces
    \/ IntegratorStep2
    \/ PostStep
    \/ IntegrateReturn

Spec == Init /\ [][Next]_vars

(* The registry predicate applied to every mask of the registry. *)
AllMasks == 0..(Pow2(NumRegistryFlags) - 1)

IsValidCall(m) ==
    /\ pc = "idle"
    /\ last' = Call("is_valid_propagation_combination", m,
                    is_valid_propagation_combination(m), <<>>)
    /\ UNCHANGED <<surroundings, latch, counters, handler>>
    /\ UNCHANGED shear
    /\ UNCHANGED <<ROTATION, globals, thermo_switch, lb_tau, particles, pc, locals,
                   applied1, applied2, switch_dirty>>

InitValid == InitWith([i \in ParticleIds |-> TRANS_SYSTEM_DEFAULT], TRUE)

NextValid == \E m \in AllMasks : IsValidCall(m)

SpecValid == InitValid /\ [][NextValid]_vars

(* The two phases of a step applied to a particle of any valid mask under     *)
(* every default propagation the switch operation can leave: the first         *)
(* particle carries the mask, the others are default-tagged.                   *)
DispatchPhase1 ==
    /\ pc = "idle"
    /\ time_step > 0
    /\ sim_time + time_step <= MaxSimTime
    /\ \E early_exit \in BOOLEAN :
         /\ integrator_step_1(early_exit)
         /\ last' = Call("integrator_step_1", <<>>, early_exit, <<>>)
    /\ applied2' = NoKernels
    /\ UNCHANGED <<surroundings, latch, counters, handler>>
    /\ UNCHANGED shear
    /\ UNCHANGED <<ROTATION, integ_switch, default_propagation, used_propagations,
                   time_step, recalc_forces, thermo_switch, lb_tau, particles, pc,
                   locals, switch_dirty>>

DispatchPhase2 ==
    /\ pc = "idle"
    /\ last.op = "integrator_step_1"
    /\ last.ret = FALSE
    /\ integrator_step_2
    /\ last' = Call("integrator_step_2", <<>>, "ok", <<>>)
    /\ UNCHANGED <<surroundings, latch, counters, handler>>
    /\ UNCHANGED shear
    /\ UNCHANGED <<ROTATION, globals, thermo_switch, lb_tau, particles, pc, locals,
                   applied1, switch_dirty>>

ValidMasks == {m \in AllMasks : is_valid_propagation_combination(m)}

InitDispatch ==
    \E m \in ValidMasks, rot \in BOOLEAN :
        InitWith([i \in ParticleIds |-> IF i = 1 THEN m ELSE TRANS_SYSTEM_DEFAULT], rot)

NextDispatch ==
    \/ \E v \in RecognizedIntegMethods : set_integ_switch(v)
    \/ set_time_step(1)
    \/ DispatchPhase1
    \/ DispatchPhase2

SpecDispatch == InitDispatch /\ [][NextDispatch]_vars

(* vs_relate_to turns a particle into a virtual site: it ORs TRANS_VS_RELATIVE *)
(* into the mask the particle has.                                             *)
vs_relate_to(p_vs) ==
    /\ pc = "idle"
    /\ p_vs \in DOMAIN particles
    /\ particles' = [particles EXCEPT ![p_vs] = BitOr(@, TRANS_VS_RELATIVE)]
    /\ last' = Call("vs_relate_to", p_vs, "ok", <<>>)
    /\ UNCHANGED <<surroundings, latch, counters, handler>>
    /\ UNCHANGED shear
    /\ UNCHANGED <<ROTATION, globals, thermo_switch, lb_tau, pc, locals,
                   applied1, applied2, switch_dirty>>

(* Particles of any valid mask related to another particle, then propagated. *)
NextRelate ==
    \/ \E v \in RecognizedIntegMethods : set_integ_switch(v)
    \/ set_time_step(1)
    \/ \E p_vs \in ParticleIds : vs_relate_to(p_vs)
    \/ DispatchPhase1
    \/ DispatchPhase2

SpecRelate == InitDispatch /\ [][NextRelate]_vars

(* integrate_with_signal_handler on the head node of a deployment over one or  *)
(* two ranks, SIGINT being delivered at any moment while the wrapper runs.      *)
InitSignal ==
    \E ranks \in {1, 2}, cut \in {0, 10} :
        InitState([i \in 1..NParticles |-> TRANS_SYSTEM_DEFAULT], TRUE, ranks, cut)

NextSignal ==
    \/ handler.pc = "idle" /\ \E v \in RecognizedIntegMethods : set_integ_switch(v)
    \/ handler.pc = "idle" /\ set_time_step(1)
    \/ handler.pc = "idle" /\ \E t \in {THERMO_OFF, THERMO_BROWNIAN} : SetThermo(t)
    \/ \E ns \in 0..MaxSteps, rf \in ReusePolicies, update_accumulators \in BOOLEAN :
           HandlerCall(ns, rf, update_accumulators)
    \/ HandlerDirect
    \/ HandlerDirectReturn
    \/ HandlerChunk
    \/ HandlerLoopEnd
    \/ HandlerAfterChunk
    \/ SigInt
    \/ InitialForce
    \/ LoopHead
    \/ IntegratorStep1
    \/ PushAndResort
    \/ GhostsAndForces
    \/ IntegratorStep2
    \/ PostStep
    \/ IntegrateReturn

SpecSignal == InitSignal /\ [][NextSignal]_vars

(* The sanity checks of the integrator called under every integrator switch,   *)
(* thermostat combination, box type and time step (set or unset).               *)
ThermoBits == {THERMO_LANGEVIN, THERMO_NPT_ISO, THERMO_BROWNIAN, THERMO_SD}

RECURSIVE SumOfSet(_)
SumOfSet(set) ==
    IF set = {} THEN 0
    ELSE LET x == CHOOSE y \in set : TRUE IN x + SumOfSet(set \ {x})

\* thermo_switch is the OR of the bits of the active thermostats.
ThermoSettings == {SumOfSet(bits) : bits \in SUBSET ThermoBits}

InitSanity == InitWith([i \in 1..NParticles |-> TRANS_SYSTEM_DEFAULT], TRUE)

NextSanity ==
    \/ \E v \in IntegValues : set_integ_switch(v)
    \/ set_time_step(1)
    \/ \E t \in ThermoSettings : SetThermo(t)
    \/ set_protocol("linear_shear")
    \/ unset_protocol
    \/ IntegratorSanityChecksCall

SpecSanity == InitSanity /\ [][NextSanity]_vars

(* The start of integrate over several particles of different masks, with the  *)
(* box type and the lattice fluid changing between the calls.                   *)
StartMasks ==
    {TRANS_SYSTEM_DEFAULT, TRANS_LANGEVIN_NPT, TRANS_LANGEVIN + ROT_LANGEVIN,
     TRANS_BROWNIAN}

InitStart ==
    \E ps \in [1..NStartParticles -> StartMasks] : InitWith(ps, TRUE)

NextStart ==
    \/ \E v \in DynamicsIntegrators : set_integ_switch(v)
    \/ set_time_step(1)
    \/ set_protocol("linear_shear")
    \/ unset_protocol
    \/ \E tau \in {0, 2} : SetLattice(tau)
    \/ \E rf \in ReusePolicies : IntegrateCall(1, rf)
    \/ InitialForce
    \/ LoopHead
    \/ IntegratorStep1
    \/ PushAndResort
    \/ GhostsAndForces
    \/ IntegratorStep2
    \/ PostStep
    \/ IntegrateReturn

SpecStart == InitStart /\ [][NextStart]_vars

(* Whole steps of integrate over particles of every kind: the first particle *)
(* has any valid mask or the NpT flag, the others have one translation flag, *)
(* under every integrator and a thermostat that lets it pass the checks.     *)
InitGuard ==
    \E m \in ValidMasks \cup {TRANS_LANGEVIN_NPT}, rot \in BOOLEAN :
        \E others \in [2..NStartParticles ->
                          {TRANS_SYSTEM_DEFAULT, TRANS_LANGEVIN, TRANS_BROWNIAN,
                           TRANS_STOKESIAN}] :
            InitWith([i \in 1..NStartParticles |-> IF i = 1 THEN m ELSE others[i]], rot)

NextGuard ==
    \/ \E v \in RecognizedIntegMethods : set_integ_switch(v)
    \/ set_time_step(1)
    \/ \E t \in {THERMO_OFF, THERMO_BROWNIAN} : SetThermo(t)
    \/ IntegrateCall(1, INTEG_REUSE_FORCES_CONDITIONALLY)
    \/ InitialForce
    \/ LoopHead
    \/ IntegratorStep1
    \/ PushAndResort
    \/ GhostsAndForces
    \/ IntegratorStep2
    \/ PostStep
    \/ IntegrateReturn

SpecGuard == InitGuard /\ [][NextGuard]_vars

(* A lattice fluid coupled to the MD steps at a constant ratio: the fluid is *)
(* activated once, before the first step, and the time unit of the MD steps  *)
(* is one; the propagations of the fluid are observed.                       *)
FluidTaus == {1, 2, 3}

InitFluid ==
    /\ InitProgram([i \in 1..NParticles |-> TRANS_SYSTEM_DEFAULT], TRUE, 1, 0)
    /\ lb_log = LbLogOn

NextFluid ==
    \/ \E v \in DynamicsIntegrators : set_integ_switch(v)
    \/ set_time_step(1)
    \/ \E tau \in FluidTaus : lb_tau = 0 /\ SetLattice(tau)
    \/ \E ns \in 0..MaxSteps, rf \in ReusePolicies :
           lb_tau # 0 /\ IntegrateCall(ns, rf)
    \/ InitialForce
    \/ LoopHead
    \/ IntegratorStep1
    \/ PushAndResort
    \/ GhostsAndForces
    \/ IntegratorStep2
    \/ PostStep
    \/ IntegrateReturn

SpecFluid == InitFluid /\ [][NextFluid]_vars

(* A lattice fluid and an electrokinetic solver, each activated, removed and *)
(* reconfigured between integrate calls.                                     *)
CoupledTaus == {0, 1, 2}

InitCoupled == InitWith([i \in 1..NParticles |-> TRANS_SYSTEM_DEFAULT], TRUE)

NextCoupled ==
    \/ set_time_step(1)
    \/ \E tau \in CoupledTaus : SetLattice(tau)
    \/ \E tau \in CoupledTaus : SetElectrokinetics(tau)
    \/ \E ns \in 0..MaxSteps, rf \in ReusePolicies : IntegrateCall(ns, rf)
    \/ InitialForce
    \/ LoopHead
    \/ IntegratorStep1
    \/ PushAndResort
    \/ GhostsAndForces
    \/ IntegratorStep2
    \/ PostStep
    \/ PostStepAbort
    \/ IntegrateReturn

SpecCoupled == InitCoupled /\ [][NextCoupled]_vars

(* Lees-Edwards protocols installed, replaced and removed between integrate  *)
(* calls, under the NVT and the NpT integrator.                              *)
Protocols == {"linear_shear", "oscillatory_shear"}

InitShear == InitWith([i \in 1..NParticles |-> TRANS_SYSTEM_DEFAULT], TRUE)

NextShear ==
    \/ \E v \in {INTEG_METHOD_NVT, INTEG_METHOD_NPT_ISO} : set_integ_switch(v)
    \/ set_time_step(1)
    \/ \E v \in 0..MaxSimTime : set_time(v)
    \/ \E p \in Protocols : set_protocol(p)
    \/ unset_protocol
    \/ \E ns \in 0..MaxSteps : IntegrateCall(ns, INTEG_REUSE_FORCES_CONDITIONALLY)
    \/ InitialForce
    \/ LoopHead
    \/ IntegratorStep1
    \/ PushAndResort
    \/ GhostsAndForces
    \/ IntegratorStep2
    \/ PostStep
    \/ IntegrateReturn

SpecShear == InitShear /\ [][NextShear]_vars

(* A sheared box under every way an integrate call can end: the call is made  *)
(* through integrate_with_signal_handler without accumulator updates, so that *)
(* SIGINT can be delivered, under NVT and under steepest descent.             *)
NextShearExit ==
    \/ /\ handler.pc = "idle"
       /\ \E v \in {INTEG_METHOD_NVT, INTEG_METHOD_STEEPEST_DESCENT} : set_integ_switch(v)
    \/ handler.pc = "idle" /\ set_time_step(1)
    \/ handler.pc = "idle" /\ \E v \in 0..MaxSimTime : set_time(v)
    \/ handler.pc = "idle" /\ \E p \in Protocols : set_protocol(p)
    \/ handler.pc = "idle" /\ unset_protocol
    \/ \E ns \in 0..MaxSteps : HandlerCall(ns, INTEG_REUSE_FORCES_CONDITIONALLY, FALSE)
    \/ HandlerDirect
    \/ HandlerDirectReturn
    \/ SigInt
    \/ InitialForce
    \/ LoopHead
    \/ IntegratorStep1
    \/ PushAndResort
    \/ GhostsAndForces
    \/ IntegratorStep2
    \/ PostStep
    \/ IntegrateReturn

SpecShearExit == InitShear /\ [][NextShearExit]_vars

(* The skin, set by the user or derived by integrate_with_signal_handler, on *)
(* one rank, with and without an interaction cutoff.                         *)
SkinValues == {1, 2}

InitSkin ==
    \E cut \in {0, 10} :
        InitState([i \in 1..NParticles |-> TRANS_SYSTEM_DEFAULT], TRUE, 1, cut)

NextSkin ==
    \/ handler.pc = "idle" /\ set_time_step(1)
    \/ \E v \in SkinValues : set_skin(v)
    \/ \E ns \in 0..MaxSteps, update_accumulators \in BOOLEAN :
           HandlerCall(ns, INTEG_REUSE_FORCES_CONDITIONALLY, update_accumulators)
    \/ HandlerDirect
    \/ HandlerDirectReturn
    \/ HandlerChunk
    \/ HandlerLoopEnd
    \/ HandlerAfterChunk
    \/ InitialForce
    \/ LoopHead
    \/ IntegratorStep1
    \/ PushAndResort
    \/ GhostsAndForces
    \/ IntegratorStep2
    \/ PostStep
    \/ IntegrateReturn

SpecSkin == InitSkin /\ [][NextSkin]_vars

(* ------------------------------------------------------------------ *)
(* Properties                                                          *)
(* ------------------------------------------------------------------ *)
\* flag is one bit (a power of two): whether mask contains it.
HasFlag(mask, flag) == (mask \div flag) % 2 = 1

Range(seq) == {seq[k] : k \in 1..Len(seq)}

SingleBitMasks == {Pow2(k) : k \in 0..(NumRegistryFlags - 1)}

ListedCombinations ==
    {TRANS_LANGEVIN + ROT_LANGEVIN,
     TRANS_VS_RELATIVE + ROT_VS_RELATIVE,
     TRANS_BROWNIAN + ROT_BROWNIAN,
     TRANS_VS_RELATIVE + ROT_LANGEVIN,
     TRANS_LANGEVIN + ROT_VS_RELATIVE,
     TRANS_LB_MOMENTUM_EXCHANGE + TRANS_VS_RELATIVE,
     TRANS_LB_MOMENTUM_EXCHANGE + TRANS_VS_RELATIVE + ROT_LANGEVIN,
     TRANS_LB_MOMENTUM_EXCHANGE + TRANS_VS_RELATIVE + ROT_VS_RELATIVE}

\* C1: for every mask m of the ten registry flags, is_valid_propagation_combination(m)
\* is true exactly when m is 0, a single bit, or one of the eight listed
\* combinations; every other multi-bit mask is invalid.
C1_ValidExactlyWhenListed ==
    last.op = "is_valid_propagation_combination" =>
        (last.ret <=> \/ last.arg = 0
                      \/ last.arg \in SingleBitMasks
                      \/ last.arg \in ListedCombinations)

\* C1 witness: the predicate has rejected Langevin translation with Brownian rotation.
C1_Witness ==
    /\ last.op = "is_valid_propagation_combination"
    /\ last.arg = TRANS_LANGEVIN + ROT_BROWNIAN
    /\ last.ret = FALSE

\* The states right after integrator_step_1 / integrator_step_2 has run.
Phase1Done == pc = "mid" \/ (pc = "idle" /\ last.op = "integrator_step_1")

Phase2Done == pc = "post" \/ (pc = "idle" /\ last.op = "integrator_step_2")

Phase1Families ==
    << <<TRANS_LANGEVIN, "velocity_verlet_propagate_vel_pos_par">>,
       <<ROT_LANGEVIN, "propagate_omega_quat_particle">>,
       <<TRANS_BROWNIAN, "brownian_dynamics_propagator">>,
       <<ROT_BROWNIAN, "brownian_dynamics_rotator">> >>

Phase2Families ==
    << <<TRANS_LANGEVIN, "velocity_verlet_propagate_vel_final_par">>,
       <<ROT_LANGEVIN, "convert_torque_propagate_omega">> >>

\* The dispatch rule: the particle's own mask contains F, or the default
\* propagation contains F and the particle is default-tagged.
RuleApplies(mask, F) ==
    \/ HasFlag(mask, F)
    \/ HasFlag(default_propagation, F) /\ HasFlag(mask, TRANS_SYSTEM_DEFAULT)

\* The kernels of the families, in the order of the families, the rule selects.
RuleKernels(mask, families) ==
    LET IsSelected(f) == RuleApplies(mask, f[1])
        selected == SelectSeq(families, IsSelected)
    IN  [k \in 1..Len(selected) |-> selected[k][2]]

\* The kernels of the families among those applied, in the order applied.
AppliedOf(applied, families) ==
    LET IsOfFamilies(kernel) == \E k \in 1..Len(families) : families[k][2] = kernel
    IN  SelectSeq(applied, IsOfFamilies)

\* C2: in phase 1 of a step that is not steepest descent, each of the four
\* per-particle families (Langevin translation, Langevin rotation, Brownian
\* translation, Brownian rotation) is applied to a particle exactly when the
\* dispatch rule selects it (the gate of the loop suppresses no match), in this
\* fixed order; phase 2 obeys the same rule for the two Langevin finalizers.
C2_PerParticleDispatchRule ==
    /\ (Phase1Done /\ integ_switch # INTEG_METHOD_STEEPEST_DESCENT) =>
           \A i \in ParticleIds :
               AppliedOf(applied1[i], Phase1Families)
                   = RuleKernels(particles[i], Phase1Families)
    /\ (Phase2Done /\ integ_switch # INTEG_METHOD_STEEPEST_DESCENT) =>
           \A i \in ParticleIds :
               AppliedOf(applied2[i], Phase2Families)
                   = RuleKernels(particles[i], Phase2Families)

\* C2 witness: a particle that is default-tagged and carries none of the four
\* family flags itself has been propagated by both Brownian kernels of the
\* default, which only the extended gate lets through.
C2_Witness ==
    /\ Phase1Done
    /\ integ_switch = INTEG_METHOD_BD
    /\ particles[1] = TRANS_SYSTEM_DEFAULT
    /\ applied1[1] = <<"brownian_dynamics_propagator", "brownian_dynamics_rotator">>

AllFamilies ==
    Phase1Families
    \o << <<TRANS_STOKESIAN, "stokesian_dynamics_step_1">>,
          <<TRANS_LANGEVIN_NPT, "velocity_verlet_npt_step_1">> >>

\* C3: the dispatch rule holds for every family, Stokesian and NPT-coupled
\* translation included: a particle whose own mask contains family F is propagated
\* by F's phase-1 kernel in every step that is not steepest descent, whatever
\* default_propagation is.
C3_OwnFamilyAlwaysPropagated ==
    (Phase1Done /\ integ_switch # INTEG_METHOD_STEEPEST_DESCENT) =>
        \A i \in ParticleIds : \A k \in 1..Len(AllFamilies) :
            HasFlag(particles[i], AllFamilies[k][1]) =>
                AllFamilies[k][2] \in Range(applied1[i])

TranslationKernels ==
    {"velocity_verlet_propagate_vel_pos_par", "brownian_dynamics_propagator",
     "stokesian_dynamics_step_1", "velocity_verlet_npt_step_1"}

TranslationKernelOf(integ) ==
    CASE integ = INTEG_METHOD_NVT -> "velocity_verlet_propagate_vel_pos_par"
      [] integ = INTEG_METHOD_BD -> "brownian_dynamics_propagator"
      [] integ = INTEG_METHOD_SD -> "stokesian_dynamics_step_1"
      [] integ = INTEG_METHOD_NPT_ISO -> "velocity_verlet_npt_step_1"

IsTranslationKernel(kernel) == kernel \in TranslationKernels

\* C4: for a particle whose mask is exactly TRANS_SYSTEM_DEFAULT, the translation
\* propagator applied in phase 1 is the one of the currently configured integrator
\* (Langevin under NVT, Brownian under BD, Stokesian under SD, the NPT kernel under
\* NPT).
C4_DefaultTaggedFollowsIntegrator ==
    (/\ Phase1Done
     /\ integ_switch \in {INTEG_METHOD_NVT, INTEG_METHOD_BD, INTEG_METHOD_SD,
                          INTEG_METHOD_NPT_ISO}) =>
        \A i \in ParticleIds :
            particles[i] = TRANS_SYSTEM_DEFAULT =>
                SelectSeq(applied1[i], IsTranslationKernel)
                    = <<TranslationKernelOf(integ_switch)>>

\* The table of the switch operation for the four dynamics integrators.
TableEntry(v) ==
    CASE v = INTEG_METHOD_NVT ->
            IF ROTATION THEN TRANS_LANGEVIN + ROT_LANGEVIN ELSE TRANS_LANGEVIN
      [] v = INTEG_METHOD_NPT_ISO ->
            IF ROTATION THEN TRANS_LANGEVIN_NPT + ROT_LANGEVIN ELSE TRANS_LANGEVIN_NPT
      [] v = INTEG_METHOD_BD ->
            IF ROTATION THEN TRANS_BROWNIAN + ROT_BROWNIAN ELSE TRANS_BROWNIAN
      [] v = INTEG_METHOD_SD -> TRANS_STOKESIAN

\* C5: after set_integ_switch(v) returns, default_propagation is the table entry
\* of v (NVT: Langevin translation, NPT_ISO: Langevin-NPT translation, BD: Brownian
\* translation, each plus its rotation flag when rotation is compiled in;
\* Stokesian: Stokesian translation only), whatever the state before the call.
C5_SwitchSetsTableEntry ==
    [][\A v \in {INTEG_METHOD_NVT, INTEG_METHOD_NPT_ISO, INTEG_METHOD_BD,
                 INTEG_METHOD_SD} :
           set_integ_switch(v) =>
               /\ last'.ret = "ok"
               /\ integ_switch' = v
               /\ default_propagation' = TableEntry(v)]_vars

\* C5 witness: set_integ_switch(BD) has returned in a build with rotation, after
\* a state in which the default was another one.
C5_Witness ==
    /\ last = Call("set_integ_switch", INTEG_METHOD_BD, "ok", <<>>)
    /\ ROTATION
    /\ default_propagation = TRANS_BROWNIAN + ROT_BROWNIAN
    /\ sim_time > 0

\* C6: after set_integ_switch(STEEPEST_DESCENT), default_propagation is the
\* no-propagation placeholder, the empty mask.
C6_SteepestDescentHasNoPropagation ==
    last = Call("set_integ_switch", INTEG_METHOD_STEEPEST_DESCENT, "ok", <<>>) =>
        default_propagation = NONE

\* The part of an integrate call after its initial section.
InLoop == pc \in {"loop", "step1", "mid", "ghosts", "step2", "post", "finish"}

C8_NonPositiveTimeStepRejected ==
    [][\A v \in TimeStepValues :
           (v <= 0 /\ set_time_step(v)) =>
               /\ last'.ret = "threw"
               /\ "on_timestep_change" \notin Range(last'.events)
               /\ UNCHANGED <<time_step, sim_time, integ_switch, recalc_forces,
                              default_propagation>>]_vars

\* C8 witness: set_time_step(0) has thrown in a state with a time step set, time
\* elapsed and a default propagation configured.
C8_Witness ==
    /\ last = Call("set_time_step", 0, "threw", <<>>)
    /\ time_step = 1
    /\ sim_time > 0
    /\ default_propagation # 0

Count(seq, x) == Cardinality({k \in 1..Len(seq) : seq[k] = x})

\* C9: for set_time_step(v) with v > 0 the fluid consistency check runs, when a
\* lattice fluid is active, before time_step is stored: if it rejects v, time_step
\* keeps its old value and no notification is emitted; if v is accepted or no
\* fluid is active, time_step is v and the notification is emitted exactly once,
\* after the store.
C9_FluidCheckBeforeStore ==
    [][\A v \in TimeStepValues :
           (v > 0 /\ set_time_step(v)) =>
               LET es == last'.events
                   rejected == lb_tau # 0 /\ ~(lb_tau >= v /\ lb_tau % v = 0)
               IN  /\ lb_tau # 0 => es[1] = "check_tau_time_step_consistency"
                   /\ lb_tau = 0 => "check_tau_time_step_consistency" \notin Range(es)
                   /\ rejected =>
                          /\ last'.ret = "threw"
                          /\ time_step' = time_step
                          /\ "store" \notin Range(es)
                          /\ "on_timestep_change" \notin Range(es)
                   /\ ~rejected =>
                          /\ last'.ret = "ok"
                          /\ time_step' = v
                          /\ Count(es, "on_timestep_change") = 1
                          /\ Count(es, "store") = 1
                          /\ es[Len(es)] = "on_timestep_change"
                          /\ es[Len(es) - 1] = "store"]_vars

\* C9 witness: with a lattice fluid active, set_time_step has been rejected by the
\* consistency check and the old time step is still stored.
C9_Witness ==
    /\ last = Call("set_time_step", 2, "threw", <<"check_tau_time_step_consistency">>)
    /\ lb_tau = 1
    /\ time_step = 1

\* C10: in every started loop iteration of integrate, in every integrator mode
\* (steepest descent and the iteration that exits early included), phase 1
\* advances sim_time by exactly one time_step.
C10_EveryIterationAdvancesSimTime ==
    [][(pc = "step1" /\ pc' # "step1") => sim_time' = sim_time + time_step]_vars

\* The step with which integrate returns after its loop, and the step that ends
\* a loop iteration.
ReturnsAfterLoop == pc = "finish" /\ pc' = "idle"

EndsIteration == pc = "post" /\ pc' # "post"

\* C11: with a positive time step, an integrator among NVT, NPT, BD and
\* Stokesian, and no runtime error or interrupt occurring, integrate(n) returns
\* exactly n and sim_time afterwards is sim_time before plus n times time_step,
\* for every n >= 0 and every reuse_forces policy.
C11_FullRunReturnsRequestedSteps ==
    [][(/\ ReturnsAfterLoop
        /\ ~caught_error /\ ~caught_sigint
        /\ time_step > 0
        /\ integ_switch \in DynamicsIntegrators) =>
           /\ last'.ret = n_steps
           /\ sim_time' = handler.sim_time_at_integrate + n_steps * time_step]_vars

\* C11 witness: under BD, integrate has returned the largest number of steps
\* requested, sim_time advanced by as many time steps.
C11_Witness ==
    /\ pc = "idle"
    /\ handler.pc = "direct_wait"
    /\ integ_switch = INTEG_METHOD_BD
    /\ handler.n_steps = MaxSteps
    /\ last.op = "integrate"
    /\ last.ret = MaxSteps
    /\ sim_time = handler.sim_time_at_integrate + MaxSteps * time_step

RECURSIVE SumSeq(_)
SumSeq(seq) == IF seq = <<>> THEN 0 ELSE Head(seq) + SumSeq(Tail(seq))

\* C12: when integrate_with_signal_handler(n, policy, update_accumulators = true)
\* returns success on the head node, the chunk sizes passed to integrate sum to
\* exactly n and sim_time has advanced by exactly n times time_step over the
\* whole call, also when an inner integrate call ended early.
C12_ChunkedRunAdvancesRequestedTime ==
    (/\ handler.pc = "loop"
     /\ handler.update_accumulators
     /\ handler.i >= handler.n_steps) =>
        /\ SumSeq(handler.chunks) = handler.n_steps
        /\ sim_time = handler.sim_time_at_call + handler.n_steps * time_step

\* C13: after each completed step a pending runtime error stops the loop and the
\* result is the runtime-error code; otherwise, only with exactly one rank, a set
\* interrupt latch stops the loop and the result is the interrupt code; otherwise
\* the loop continues and the result is the non-negative number of completed
\* steps. The two codes are negative and distinct, an error wins over an
\* interrupt pending at the same step boundary, and with more than one rank a
\* set latch never stops the loop.
C13_TerminationPollPriority ==
    [][/\ INTEG_ERROR_RUNTIME < 0 /\ INTEG_ERROR_SIGINT < 0
       /\ INTEG_ERROR_RUNTIME # INTEG_ERROR_SIGINT
       /\ EndsIteration =>
              /\ integrated_steps' = integrated_steps + 1
              /\ caught_error' => (pc' = "finish" /\ ~caught_sigint')
              /\ (~caught_error' /\ n_ranks = 1 /\ ctrl_C = 1) =>
                     (pc' = "finish" /\ caught_sigint')
              /\ (~caught_error' /\ ~(n_ranks = 1 /\ ctrl_C = 1)) =>
                     (pc' = "loop" /\ ~caught_sigint' /\ step' = step + 1)
       /\ ReturnsAfterLoop =>
              /\ caught_error => last'.ret = INTEG_ERROR_RUNTIME
              /\ (~caught_error /\ caught_sigint) => last'.ret = INTEG_ERROR_SIGINT
              /\ (~caught_error /\ ~caught_sigint) =>
                     (last'.ret = integrated_steps /\ last'.ret >= 0)]_vars

\* C13 witness: in single-process mode a step has ended with the latch set and a
\* runtime error pending, and the error has stopped the loop.
C13_Witness ==
    /\ pc = "finish"
    /\ n_ranks = 1
    /\ ctrl_C = 1
    /\ caught_error
    /\ ~caught_sigint

\* C14: in a single-process run in which the interrupt is latched during a step
\* of a longer request, the result of integrate reports the number of steps
\* completed together with the interrupt outcome.
C14_InterruptResultReportsSteps ==
    [][(ReturnsAfterLoop /\ caught_sigint /\ integrated_steps < n_steps) =>
           last'.ret = integrated_steps]_vars

\* C15: whenever integrate ends with the interrupt outcome the latch is reset to
\* 0 before it returns, and an integrate call is interrupted only by a signal
\* delivered after the latest interrupt outcome: a call issued right after an
\* interrupted one, with no new signal, is not interrupted.
C15_LatchResetOnInterrupt ==
    [][/\ (ReturnsAfterLoop /\ last'.ret = INTEG_ERROR_SIGINT) => ctrl_C' = 0
       /\ caught_sigint' => signal_pending]_vars

\* C15 witness: integrate has just returned the interrupt code and the latch is 0.
C15_Witness ==
    /\ pc = "idle"
    /\ last.op = "integrate"
    /\ last.ret = INTEG_ERROR_SIGINT
    /\ ctrl_C = 0

\* C16: the interrupt latch is read only at the end of a whole step: an
\* interrupt takes effect only after the step is complete (forces and phase 2
\* done, the step counted, sim_time advanced by as many time steps as steps
\* completed), never between phase 1 and phase 2, and integrate(0) never
\* observes it.
C16_InterruptOnlyBetweenWholeSteps ==
    [][(caught_sigint' /\ ~caught_sigint) =>
           /\ pc = "post"
           /\ n_steps > 0
           /\ integrated_steps' = step + 1
           /\ sim_time' = handler.sim_time_at_integrate + integrated_steps' * time_step
           /\ \E i, j \in 1..Len(last.events) :
                  /\ i < j
                  /\ last.events[i] = "integrator_step_1"
                  /\ last.events[j] = "force_calc"
                  /\ last.events[Len(last.events)] = "integrator_step_2"]_vars

\* The names of the calls integrate makes up to its first check_runtime_errors;
\* every other event of an integrate call that has not got further is a runtime
\* error reported by one of them.
StartCalls ==
    {"on_integration_start", "get_used_propagations", "propagation_sanity_checks",
     "check_runtime_errors"}

\* The step in which integrate, called directly, is entered and runs up to its
\* first check_runtime_errors: a step from idle that leaves the record of an
\* integrate call and is not a reconfiguration of the thermostat or the lattice
\* (which keep the record of the call before them).
EntersIntegrate ==
    /\ pc = "idle"
    /\ pc' \in {"idle", "init_force"}
    /\ last'.op = "integrate"
    /\ last'.events[Len(last'.events)] = "check_runtime_errors"
    /\ UNCHANGED <<thermo_switch, lb_tau, handler>>

\* C17: if a runtime error is pending after the start-of-integration sanity
\* checks (the integrator is NPT while the box type is Lees-Edwards, the time
\* step is unset, or any other error was reported), integrate returns the
\* runtime-error code without executing any step: no initial force calculation,
\* no phase 1, sim_time and the counters of the coupled solvers unchanged, zero
\* steps completed.
C17_StartErrorRunsNoStep ==
    [][(/\ EntersIntegrate
        /\ \/ time_step < 0
           \/ integ_switch = INTEG_METHOD_NPT_ISO /\ box_type = LEES_EDWARDS
           \/ Range(last'.events) \ StartCalls # {}) =>
           /\ pc' = "idle"
           /\ last'.ret = INTEG_ERROR_RUNTIME
           /\ "force_calc" \notin Range(last'.events)
           /\ "integrator_step_1" \notin Range(last'.events)
           /\ applied1' = NoKernels
           /\ integrated_steps' = 0
           /\ UNCHANGED <<sim_time, fluid_step, ek_step, recalc_forces>>]_vars

\* C17 witness: integrate has returned the runtime-error code from its start,
\* the integrator being NPT in a Lees-Edwards box, after earlier steps that left
\* sim_time and the fluid counter advanced.
C17_Witness ==
    /\ pc = "idle"
    /\ last.op = "integrate"
    /\ last.ret = INTEG_ERROR_RUNTIME
    /\ "The NpT integrator cannot use Lees-Edwards" \in Range(last.events)
    /\ integ_switch = INTEG_METHOD_NPT_ISO
    /\ box_type = LEES_EDWARDS
    /\ sim_time > 0
    /\ fluid_step > 0

\* The messages the sanity checks of the integrator are to report in a mode
\* other than NPT.
ExpectedSanityErrors ==
    (IF time_step < 0 THEN {"time_step not set"} ELSE {})
    \cup
    (IF integ_switch = INTEG_METHOD_STEEPEST_DESCENT
     THEN IF thermo_switch # THERMO_OFF
          THEN {"The steepest descent integrator is incompatible with thermostats"}
          ELSE {}
     ELSE IF integ_switch = INTEG_METHOD_NVT
     THEN IF \/ HasFlag(thermo_switch, THERMO_NPT_ISO)
             \/ HasFlag(thermo_switch, THERMO_BROWNIAN)
             \/ HasFlag(thermo_switch, THERMO_SD)
          THEN {"The VV integrator is incompatible with the currently active combination of thermostats"}
          ELSE {}
     ELSE IF integ_switch = INTEG_METHOD_BD
     THEN IF thermo_switch # THERMO_BROWNIAN
          THEN {"The BD integrator requires the BD thermostat"}
          ELSE {}
     ELSE IF integ_switch = INTEG_METHOD_SD
     THEN IF thermo_switch \notin {THERMO_OFF, THERMO_SD}
          THEN {"The SD integrator requires the SD thermostat"}
          ELSE {}
     ELSE {"Unknown value for integ_switch"})

\* C18: in the modes other than NPT, integrator_sanity_checks reports a runtime
\* error, without throwing, in exactly these cases: time_step negative; steepest
\* descent with any thermostat active; NVT with any of the NPT, Brownian or
\* Stokesian thermostat bits set; BD with a thermostat setting other than exactly
\* Brownian; Stokesian with a setting other than off or Stokesian; an
\* unrecognized integ_switch. Every applicable problem is reported in the same
\* invocation.
C18_SanityErrorsExactlyAsListed ==
    [][(IntegratorSanityChecksCall /\ integ_switch # INTEG_METHOD_NPT_ISO) =>
           /\ last'.ret = "ok"
           /\ Range(last'.events) = ExpectedSanityErrors
           /\ Len(last'.events) = Cardinality(ExpectedSanityErrors)]_vars

\* C18 witness: with the time step unset and BD under the Langevin thermostat,
\* the checks have reported both problems in one invocation.
C18_Witness ==
    /\ last = Call("integrator_sanity_checks", <<>>, "ok",
                   <<"time_step not set", "The BD integrator requires the BD thermostat">>)
    /\ integ_switch = INTEG_METHOD_BD
    /\ thermo_switch = THERMO_LANGEVIN
    /\ time_step < 0

\* C19: with the NPT integrator active, the sanity check reports a runtime error
\* whenever the active thermostat is not the NPT thermostat (also when no
\* thermostat is active) and whenever the box type is Lees-Edwards; only the NPT
\* integrator with the NPT thermostat and a cuboid box passes.
C19_NptRequiresNptThermostat ==
    [][(IntegratorSanityChecksCall /\ integ_switch = INTEG_METHOD_NPT_ISO) =>
           /\ (thermo_switch # THERMO_NPT_ISO \/ box_type = LEES_EDWARDS) =>
                  last'.events # <<>>
           /\ (time_step >= 0 /\ last'.events = <<>>) =>
                  (thermo_switch = THERMO_NPT_ISO /\ box_type = CUBOID)]_vars

\* The used propagations as the claim gives them: the OR of the masks of all
\* local particles, extended by the default propagation if and only if some
\* particle carries TRANS_SYSTEM_DEFAULT.
UsedFlags ==
    {f \in SingleBitMasks \cup {TRANS_LANGEVIN_NPT} :
        \/ \E i \in DOMAIN particles : HasFlag(particles[i], f)
        \/ /\ HasFlag(default_propagation, f)
           /\ \E i \in DOMAIN particles : HasFlag(particles[i], TRANS_SYSTEM_DEFAULT)}

\* C20: at the start of integrate, used_propagations is the OR of the masks of
\* all local particles, extended by default_propagation if and only if some
\* particle carries TRANS_SYSTEM_DEFAULT; a runtime error is reported, and
\* integrate returns the runtime-error code before any step, if and only if
\* used_propagations contains NPT-coupled translation together with at least one
\* of Brownian, Langevin or Stokesian translation.
C20_UsedPropagationsChecked ==
    [][EntersIntegrate =>
           LET incompatible ==
                   /\ TRANS_LANGEVIN_NPT \in UsedFlags
                   /\ UsedFlags \cap {TRANS_BROWNIAN, TRANS_LANGEVIN, TRANS_STOKESIAN} # {}
               reported ==
                   "Langevin NPT translation is incompatible with other translation modes"
                       \in Range(last'.events)
           IN  /\ used_propagations' = SumOfSet(UsedFlags)
               /\ reported <=> incompatible
               /\ reported =>
                      /\ pc' = "idle"
                      /\ last'.ret = INTEG_ERROR_RUNTIME
                      /\ "integrator_step_1" \notin Range(last'.events)
                      /\ UNCHANGED sim_time]_vars

\* C20 witness: integrate has refused to start because a default-tagged particle
\* follows the NPT default while another particle is tagged Brownian.
C20_Witness ==
    /\ pc = "idle"
    /\ last.op = "integrate"
    /\ last.ret = INTEG_ERROR_RUNTIME
    /\ "Langevin NPT translation is incompatible with other translation modes"
           \in Range(last.events)
    /\ \A i \in DOMAIN particles : ~HasFlag(particles[i], TRANS_LANGEVIN_NPT)
    /\ \E i \in DOMAIN particles : particles[i] = TRANS_SYSTEM_DEFAULT
    /\ \E i \in DOMAIN particles : particles[i] = TRANS_BROWNIAN
    /\ HasFlag(used_propagations, TRANS_LANGEVIN_NPT)

\* The events of the loop iteration in progress: those from the latest
\* LeesEdwards::update_box_params on.
IterationEvents(events) ==
    LET starts == {k \in 1..Len(events) : events[k] = "update_box_params"}
        latest == CHOOSE k \in starts : \A j \in starts : j <= k
    IN  IF starts = {} THEN <<>> ELSE SubSeq(events, latest, Len(events))

IsPhaseEvent(e) ==
    e \in {"integrator_step_1", "cells_update_ghosts", "force_calc", "integrator_step_2"}

PhaseEvents(events) == SelectSeq(IterationEvents(events), IsPhaseEvent)

WholeStep ==
    <<"integrator_step_1", "cells_update_ghosts", "force_calc", "integrator_step_2">>

\* C21: in every loop iteration of integrate that is not a steepest-descent
\* early exit, phase 1, the ghost resynchronization, the force recomputation and
\* phase 2 occur exactly once each and in this order; phase 1 of step k+1 never
\* starts before phase 2 and the post-step hooks of step k have finished.
C21_PhasesOncePerIterationInOrder ==
    [][/\ (pc = "step1" /\ pc' # "step1" /\ pc' # "finish") =>
              PhaseEvents(last'.events) = SubSeq(WholeStep, 1, 1)
       /\ (pc = "ghosts" /\ pc' # "ghosts") =>
              PhaseEvents(last'.events) = SubSeq(WholeStep, 1, 3)
       /\ (pc = "step2" /\ pc' # "step2") =>
              /\ pc' = "post"
              /\ PhaseEvents(last'.events) = WholeStep
       /\ (pc # "step1" /\ pc' = "step1" /\ step' > 0) =>
              /\ pc = "loop"
              /\ PhaseEvents(last.events) = WholeStep
              /\ last.events[Len(last.events)] = "check_runtime_errors"
              /\ integrated_steps = step]_vars

\* C21 witness: the second iteration of a run has completed its phase 2, with
\* kernels applied in both phases.
C21_Witness ==
    /\ pc = "post"
    /\ step = 1
    /\ PhaseEvents(last.events) = WholeStep
    /\ \E i \in DOMAIN particles : applied1[i] # <<>> /\ applied2[i] # <<>>

\* C22: with only the lattice fluid active, a constant ratio r >= 1 and an
\* integrator other than steepest descent, the fluid counter increases by one in
\* every MD step and is reset to 0, the fluid propagating once, when it reaches
\* r: over any sequence of integrate calls the fluid has propagated exactly
\* floor(total MD steps / r) times, and the counter is the remainder.
C22_FluidPropagatesEveryRatioSteps ==
    (lb_log.on /\ lb_tau # 0 /\ ek_tau = 0 /\ time_step > 0) =>
        LET r == lb_tau \div time_step
        IN  /\ lb_log.propagations = lb_log.md_steps \div r
            /\ fluid_step = lb_log.md_steps % r

\* C22 witness: at ratio 3 and after six MD steps in more than two integrate
\* calls, the fluid has propagated twice and the counter is back at 0.
C22_Witness ==
    /\ lb_log.on
    /\ lb_tau = 3
    /\ time_step = 1
    /\ lb_log.md_steps = 6
    /\ lb_log.propagations = 2
    /\ fluid_step = 0
    /\ pc = "idle"

\* The loop step in which the one-step functionalities run with both solvers
\* active and mismatching ratios.
MismatchingStep ==
    /\ pc = "post"
    /\ pc' # "post"
    /\ integ_switch # INTEG_METHOD_STEEPEST_DESCENT
    /\ lb_tau # 0
    /\ ek_tau # 0
    /\ lb_tau \div time_step # ek_tau \div time_step

\* C23: if the lattice fluid and the electrokinetic solver are both active in a
\* step and their steps-per-MD-step ratios differ, a runtime error is reported in
\* that step and integrate stops at the end of that same step, returning the
\* runtime-error code; no further step runs.
C23_MismatchStopsIntegration ==
    [][/\ MismatchingStep =>
              /\ "LB and EK are active but with different time steps."
                     \in Range(last'.events)
              /\ pc' = "finish"
              /\ caught_error'
              /\ integrated_steps' = integrated_steps + 1
       /\ (pc = "finish" /\ pc' # "finish" /\ caught_error) =>
              /\ pc' = "idle"
              /\ last'.ret = INTEG_ERROR_RUNTIME]_vars

\* The claim of C23 in a build without assertions (NDEBUG).
C23_MismatchStopsIntegrationWithoutAssertions ==
    [][/\ (MismatchingStep /\ pc' # "aborted") =>
              /\ "LB and EK are active but with different time steps."
                     \in Range(last'.events)
              /\ pc' = "finish"
              /\ caught_error'
              /\ integrated_steps' = integrated_steps + 1
       /\ (pc = "finish" /\ pc' # "finish" /\ caught_error) =>
              /\ pc' = "idle"
              /\ last'.ret = INTEG_ERROR_RUNTIME]_vars

\* A step of a setter that leaves the record of its call: not a step of the
\* thermostat, the solvers, the signal or the wrapper, which keep the record of
\* the call before them.
SetterStep(op) ==
    /\ pc = "idle"
    /\ last'.op = op
    /\ UNCHANGED <<thermo_switch, lb_tau, ek_tau, latch, handler>>

\* C24: set_protocol(p) leaves the box type LEES_EDWARDS with p installed, the
\* box parameters recomputed from the current sim_time with p, the forces-dirty
\* flag set and a local resort requested; unset_protocol leaves the box type
\* CUBOID with no schedule installed, the forces-dirty flag set and a local
\* resort requested; both from any prior state.
C24_ProtocolSetAndUnset ==
    [][/\ SetterStep("set_protocol") =>
              /\ box_type' = LEES_EDWARDS
              /\ protocol' = last'.arg
              /\ protocol' \in Protocols
              /\ box_le_params' = [time |-> sim_time, protocol |-> protocol']
              /\ recalc_forces'
              /\ resort_particles' = RESORT_LOCAL
              /\ UNCHANGED <<sim_time, pc>>
       /\ SetterStep("unset_protocol") =>
              /\ box_type' = CUBOID
              /\ protocol' = "null"
              /\ recalc_forces'
              /\ resort_particles' = RESORT_LOCAL
              /\ UNCHANGED <<sim_time, pc>>]_vars

\* C24 witness: set_protocol has installed a protocol at sim_time 2; the box is
\* sheared with parameters computed for that time, the forces are dirty and a
\* local resort is requested.
C24_Witness ==
    /\ last.op = "set_protocol"
    /\ last.arg = "oscillatory_shear"
    /\ protocol = "oscillatory_shear"
    /\ box_type = LEES_EDWARDS
    /\ sim_time = 2
    /\ box_le_params = [time |-> 2, protocol |-> "oscillatory_shear"]
    /\ resort_particles = RESORT_LOCAL
    /\ recalc_forces

\* unset_protocol has returned on a box that was never sheared.
C24_UnsetOnCuboid ==
    /\ last.op = "unset_protocol"
    /\ box_type = CUBOID
    /\ box_le_params.time = -1

\* Whether event b follows event a immediately in the iteration in progress.
FollowsImmediately(events, a, b) ==
    LET es == IterationEvents(events)
    IN  \E k \in 1..(Len(es) - 1) : es[k] = a /\ es[k + 1] = b

Among(events, names) ==
    SelectSeq(IterationEvents(events), LAMBDA e : e \in names)

C26_NptSkipsDecision ==
    /\ pc = "ghosts"
    /\ step = 1
    /\ integ_switch = INTEG_METHOD_NPT_ISO
    /\ resort_particles = RESORT_NONE

\* C27: whenever integrate_with_signal_handler is called while the skin has
\* never been set and a positive interaction cutoff exists, it derives a skin and
\* marks it as set before any step is integrated, for every value of
\* update_accumulators and every n_steps; a skin that was set (by the user or by
\* an earlier derivation) is never overwritten by the wrapper.
C27_SkinDerivedBeforeAnyStep ==
    [][/\ (handler.pc # "idle" /\ max_cut > 0 /\ pc = "idle" /\ pc' # "idle") =>
              /\ skin_set'
              /\ skin' > 0
       /\ (skin_set /\ ~SetterStep("set_skin")) => UNCHANGED <<skin, skin_set>>
       /\ (~skin_set /\ skin_set' /\ ~SetterStep("set_skin")) =>
              /\ skin' = Min((4 * max_cut) \div 10, max_range - max_cut)
              /\ handler.pc = "idle"
              /\ handler'.pc # "idle"]_vars

\* The parts of C27 the code keeps: the wrapper called with accumulator updates
\* and at least one step derives the unset skin before its first chunk, and a
\* skin once set is never overwritten by the wrapper.
C27_SkinDerivedBeforeChunks ==
    [][/\ (handler.pc = "loop" /\ max_cut > 0 /\ pc = "idle" /\ pc' # "idle") =>
              /\ skin_set'
              /\ skin' > 0
       /\ (skin_set /\ ~SetterStep("set_skin")) => UNCHANGED <<skin, skin_set>>
       /\ (~skin_set /\ skin_set' /\ ~SetterStep("set_skin")) =>
              /\ skin' = Min((4 * max_cut) \div 10, max_range - max_cut)
              /\ handler.pc = "idle"
              /\ handler'.pc # "idle"]_vars

\* C28: in every reachable state every particle's propagation mask is a valid
\* combination; in particular vs_relate_to applied to a particle whose mask is
\* a valid combination leaves a mask for which is_valid_propagation_combination
\* is true.
C28_MasksStayValid ==
    \A i \in DOMAIN particles : is_valid_propagation_combination(particles[i])

\* The table of the switch operation with the placeholder of steepest descent.
TableEntryOfSwitch(v) ==
    IF v = INTEG_METHOD_STEEPEST_DESCENT THEN NONE ELSE TableEntry(v)

\* C29: in every reachable state, from process start (integ_switch = NVT, before
\* any switch operation) and after any sequence of set_integ_switch calls, failed
\* ones included, default_propagation equals the fixed-table entry of the
\* current integ_switch.
C29_DefaultPropagationMatchesSwitch ==
    /\ integ_switch \in RecognizedIntegMethods
    /\ default_propagation = TableEntryOfSwitch(integ_switch)

\* The events a step appends to the log of the running call.
NewEvents == SubSeq(last'.events, Len(last.events) + 1, Len(last'.events))

IsCouplingSwitch(e) == e \in {"lb_lbcoupling_deactivate", "lb_lbcoupling_activate"}

\* Whether the particle coupling is active after the events: the last switch
\* of the coupling among them activated it.
CouplingActiveAfter(events) ==
    LET switches == SelectSeq(events, IsCouplingSwitch)
    IN  /\ switches # <<>>
        /\ switches[Len(switches)] = "lb_lbcoupling_activate"

\* C30: integrate performs the initial ghost update and force calculation before
\* the loop if and only if reuse_forces is NEVER, or the forces-dirty flag is set
\* and reuse_forces is not ALWAYS; with reuse_forces = ALWAYS it is never
\* performed, also when the forces are dirty; the lattice-fluid particle coupling
\* is inactive during that initial calculation and active during every loop step
\* (the log of the call is cut at the start of every iteration after the first;
\* no step of the loop switches the coupling off).
C30_InitialForceCalculation ==
    [][/\ (pc = "init_force" /\ pc' # "init_force") =>
              LET performed ==
                      \E k \in 1..(Len(NewEvents) - 1) :
                          /\ NewEvents[k] = "cells_update_ghosts"
                          /\ NewEvents[k + 1] = "force_calc"
                  positions(e) == {k \in 1..Len(NewEvents) : NewEvents[k] = e}
              IN  /\ performed <=>
                         \/ reuse_forces = INTEG_REUSE_FORCES_NEVER
                         \/ recalc_forces /\ reuse_forces # INTEG_REUSE_FORCES_ALWAYS
                  /\ reuse_forces = INTEG_REUSE_FORCES_ALWAYS =>
                         /\ positions("cells_update_ghosts") = {}
                         /\ positions("force_calc") = {}
                         /\ recalc_forces' = recalc_forces
                  /\ ~performed =>
                         /\ positions("cells_update_ghosts") = {}
                         /\ positions("force_calc") = {}
                  /\ \A k \in positions("cells_update_ghosts") \cup positions("force_calc") :
                         ~CouplingActiveAfter(SubSeq(NewEvents, 1, k))
                  /\ CouplingActiveAfter(NewEvents)
       /\ (pc' \in {"step1", "mid", "ghosts", "step2", "post"}) =>
              /\ step' = 0 => CouplingActiveAfter(last'.events)
              /\ \A k \in 1..Len(last'.events) :
                     last'.events[k] = "lb_lbcoupling_deactivate" =>
                         \E j \in (k + 1)..Len(last'.events) :
                             last'.events[j] = "lb_lbcoupling_activate"]_vars

\* C30 witness: an integrate call with reuse_forces = ALWAYS stands before its
\* first step with the forces still dirty: no initial ghost update or force
\* calculation was performed and the particle coupling has been activated.
C30_Witness ==
    /\ pc = "loop"
    /\ step = 0
    /\ n_steps > 0
    /\ reuse_forces = INTEG_REUSE_FORCES_ALWAYS
    /\ recalc_forces
    /\ SelectSeq(last.events, LAMBDA e : e = "force_calc") = <<>>
    /\ CouplingActiveAfter(last.events)

\* C30 second case: the initial calculation was performed under the policy
\* NEVER and the first step is being integrated with the coupling active.
C30_PerformedUnderNever ==
    /\ pc = "step1"
    /\ step = 0
    /\ reuse_forces = INTEG_REUSE_FORCES_NEVER
    /\ \E k \in 1..Len(last.events) : last.events[k] = "lb_lbcoupling_deactivate"
    /\ CouplingActiveAfter(last.events)

\* The step in which the minimizer of steepest descent signals convergence.
ConvergenceStep ==
    /\ integ_switch = INTEG_METHOD_STEEPEST_DESCENT
    /\ pc = "step1"
    /\ pc' = "finish"

\* C31: with the steepest-descent integrator, when the minimizer step signals
\* convergence in iteration k the loop stops immediately: that iteration
\* performs no ghost update, no force calculation, no phase 2, no hooks and no
\* error or interrupt poll, it is not counted, and integrate returns the number
\* k of iterations completed before it; iterations that do not signal
\* convergence skip phase 2, coupled-solver stepping, collision handling and
\* bond-breakage processing but still recompute the forces.
C31_SteepestDescentEarlyExit ==
    [][/\ ConvergenceStep =>
              /\ IterationEvents(last'.events) = <<"update_box_params", "integrator_step_1">>
              /\ integrated_steps' = step
              /\ UNCHANGED <<step, caught_error, caught_sigint, applied2, counters,
                             recalc_forces, resort_particles, latch>>
       /\ (/\ integ_switch = INTEG_METHOD_STEEPEST_DESCENT
           /\ pc = "finish" /\ pc' = "idle"
           /\ ~caught_error /\ ~caught_sigint) =>
              /\ last'.ret = integrated_steps
              /\ last'.ret >= 0
              /\ last'.ret <= n_steps
              /\ Among(last'.events,
                       {"cells_update_ghosts", "force_calc", "integrator_step_2",
                        "check_runtime_errors"}) = <<>>
              /\ UNCHANGED latch
       /\ (integ_switch = INTEG_METHOD_STEEPEST_DESCENT /\ pc = "ghosts" /\ pc' # "ghosts") =>
              /\ FollowsImmediately(last'.events, "cells_update_ghosts", "force_calc")
              /\ ~recalc_forces'
       /\ (integ_switch = INTEG_METHOD_STEEPEST_DESCENT /\ pc = "step2" /\ pc' # "step2") =>
              /\ pc' = "post"
              /\ applied2' = NoKernels
              /\ \A i \in DOMAIN particles : applied1[i] = <<>>
       /\ (integ_switch = INTEG_METHOD_STEEPEST_DESCENT /\ pc = "post" /\ pc' # "post") =>
              /\ UNCHANGED <<fluid_step, ek_step>>
              /\ NewEvents = <<"run_kernel_UpdateOffset", "check_runtime_errors">>
              /\ integrated_steps' = integrated_steps + 1]_vars

\* C31 witness: under steepest descent the minimizer has signalled convergence
\* in the second iteration (k = 1) of a run of two requested steps, the first
\* iteration having been completed and counted.
C31_Witness ==
    /\ integ_switch = INTEG_METHOD_STEEPEST_DESCENT
    /\ pc = "finish"
    /\ n_steps = 2
    /\ step = 1
    /\ integrated_steps = 1
    /\ ~caught_error
    /\ ~caught_sigint
    /\ last.events = <<"update_box_params", "integrator_step_1">>

\* A step stands before its one-step functionalities with both solvers active
\* at a common ratio.
BothSolversAtCommonRatio ==
    /\ pc = "post"
    /\ integ_switch # INTEG_METHOD_STEEPEST_DESCENT
    /\ lb_tau # 0
    /\ ek_tau # 0
    /\ get_steps_per_md_step(lb_tau) = get_steps_per_md_step(ek_tau)

\* C32: the assertion fluid_step == ek_step of the both-solvers-active branch
\* holds in every step of every run: for every common ratio r >= 1, every number
\* of consecutive steps with both solvers active and every history in which
\* earlier steps ran with only one of the two solvers active.
C32_CountersAgreeWhenBothActive ==
    BothSolversAtCommonRatio => fluid_step = ek_step

\* C33: in every state reachable by any sequence of set_protocol (with a
\* non-null schedule), unset_protocol, set_time and integrate, the box type is
\* LEES_EDWARDS exactly when a schedule is installed, so the assertion
\* protocol != nullptr of update_box_params never fails: the box parameters are
\* never computed from the null schedule.
C33_ShearedBoxHasSchedule ==
    /\ box_type = LEES_EDWARDS <=> protocol # "null"
    /\ box_type \in {CUBOID, LEES_EDWARDS}
    /\ protocol \in Protocols \cup {"null"}
    /\ box_le_params.protocol # "null" \/ box_le_params.time = -1

\* C33 witness: with a schedule installed, the second iteration of an integrate
\* call has recomputed the box parameters from it for the current sim_time.
C33_Witness ==
    /\ last.op = "integrate"
    /\ pc = "step1"
    /\ step = 1
    /\ box_type = LEES_EDWARDS
    /\ protocol = "oscillatory_shear"
    /\ resort_particles = RESORT_NONE
    /\ box_le_params = [time |-> sim_time, protocol |-> "oscillatory_shear"]

\* C33, the other side: a schedule was removed after the box parameters had
\* been computed from it, and an integrate call runs on the cuboid box.
C33_RemovedSchedule ==
    /\ last.op = "integrate"
    /\ pc = "step1"
    /\ box_type = CUBOID
    /\ protocol = "null"
    /\ box_le_params.protocol = "linear_shear"

\* The box parameters of the installed schedule evaluated at the given time.
ScheduleAt(time) == [time |-> time, protocol |-> protocol]

\* C34: whenever set_protocol, set_time or integrate returns while the box type
\* is LEES_EDWARDS, the box shear offset and velocity are those of the installed
\* schedule evaluated at the current sim_time, after a full run, after an abort
\* by runtime error or interrupt and after a steepest-descent early exit;
\* inside a step the box parameters lag sim_time by one time step between phase
\* 1 and the next recomputation.
C34_BoxParamsCurrentAtReturn ==
    /\ (pc = "idle" /\ box_type = LEES_EDWARDS) => box_le_params = ScheduleAt(sim_time)
    /\ (/\ pc \in {"mid", "ghosts", "step2", "post"}
        /\ box_type = LEES_EDWARDS
        /\ integ_switch # INTEG_METHOD_STEEPEST_DESCENT) =>
           box_le_params = ScheduleAt(sim_time - time_step)

\* C34 witness: an integrate call in a sheared box has been ended by the
\* interrupt after its first step, of two requested, and has returned with the
\* box parameters of the time reached.
C34_Witness ==
    /\ pc = "idle"
    /\ handler.pc = "direct_wait"
    /\ handler.n_steps = 2
    /\ last.op = "integrate"
    /\ last.ret = INTEG_ERROR_SIGINT
    /\ box_type = LEES_EDWARDS
    /\ sim_time = handler.sim_time_at_integrate + 1
    /\ box_le_params = ScheduleAt(sim_time)

\* C34, further cases: the call has returned after a steepest-descent early
\* exit, and a step stands between phase 1 and the recomputation with the box
\* parameters of the time before the step.
C34_AfterEarlyExit ==
    /\ pc = "idle"
    /\ handler.pc = "direct_wait"
    /\ integ_switch = INTEG_METHOD_STEEPEST_DESCENT
    /\ handler.n_steps = 2
    /\ last.ret = 1
    /\ box_type = LEES_EDWARDS
    /\ box_le_params = ScheduleAt(sim_time)

C34_LagInsideStep ==
    /\ pc = "post"
    /\ box_type = LEES_EDWARDS
    /\ integ_switch = INTEG_METHOD_NVT
    /\ sim_time = 2
    /\ box_le_params = ScheduleAt(1)

\* The guard the comments of the source name for the per-particle loops
\* ("per_particle_integration & used_propagations"), with per_particle_integration
\* as it is where the guard stands, and the loops under that guard.
intended_guard_1 ==
    Truthy(BitAnd(TRANS_LANGEVIN + ROT_LANGEVIN + TRANS_BROWNIAN + ROT_BROWNIAN,
                  used_propagations))

intended_guard_2 ==
    Truthy(BitAnd(TRANS_LANGEVIN + ROT_LANGEVIN, used_propagations))

Step1LoopKernelsGuarded(p) == IF intended_guard_1 THEN Step1LoopKernels(p) ELSE <<>>

Step2LoopKernelsGuarded(p) == IF intended_guard_2 THEN Step2LoopKernels(p) ELSE <<>>

C35_GuardTrueThroughDefault ==
    /\ pc = "post"
    /\ integ_switch = INTEG_METHOD_NVT
    /\ intended_guard_1
    /\ intended_guard_2
    /\ \A i \in DOMAIN particles : particles[i] = TRANS_SYSTEM_DEFAULT
    /\ applied1[1] # <<>>
    /\ applied2[1] # <<>>

IsRotationKernel(kernel) ==
    kernel \in {"propagate_omega_quat_particle", "brownian_dynamics_rotator"}

\* C36: for every particle whose mask is a valid combination and every
\* default_propagation value the table can produce, phase 1 applies at most one
\* translation kernel (Langevin, Brownian, NPT or Stokesian) and at most one
\* rotation kernel (Langevin or Brownian) to that particle, so no two
\* propagators of one step write the same state fields of a particle.
C36_OneKernelPerDegreeOfFreedom ==
    Phase1Done =>
        \A i \in DOMAIN particles :
            is_valid_propagation_combination(particles[i]) =>
                /\ Len(SelectSeq(applied1[i], IsTranslationKernel)) <= 1
                /\ Len(SelectSeq(applied1[i], IsRotationKernel)) <= 1
                /\ \A k \in 1..Len(applied1[i]) :
                       IsTranslationKernel(applied1[i][k]) \/ IsRotationKernel(applied1[i][k])

\* C36 witness: a particle with its own Langevin translation and rotation has
\* been propagated in phase 1 under the Brownian default by the two Langevin
\* kernels and by nothing else.
C36_Witness ==
    /\ Phase1Done
    /\ integ_switch = INTEG_METHOD_BD
    /\ default_propagation = TRANS_BROWNIAN + ROT_BROWNIAN
    /\ particles[1] = TRANS_LANGEVIN + ROT_LANGEVIN
    /\ applied1[1] = <<"velocity_verlet_propagate_vel_pos_par",
                       "propagate_omega_quat_particle">>

\* The step with which integrate_with_signal_handler returns a value (it throws
\* only before its first integrate call).
WrapperReturns == handler.pc # "idle" /\ handler'.pc = "idle"

\* C37: on the head node with update_accumulators = true and n_steps > 0,
\* integrate_with_signal_handler returns 0 when all chunks succeed (never the
\* positive step count that integrate itself returns), and returns the first
\* negative chunk result immediately otherwise, without running later chunks
\* and without updating accumulators for the failed chunk; every chunk after
\* the first runs with reuse_forces = ALWAYS. With update_accumulators = false
\* or n_steps = 0 it returns the result of a single integrate call unchanged.
C37_WrapperReturnValues ==
    [][/\ (WrapperReturns /\ handler.update_accumulators /\ handler.n_steps > 0) =>
              /\ last'.ret <= 0
              /\ last'.events = handler.chunks
              /\ Len(handler.chunks) >= 1
              /\ IF handler.pc = "loop"
                 THEN /\ last'.ret = 0
                      /\ handler.i >= handler.n_steps
                 ELSE /\ handler.pc = "chunk"
                      /\ last.op = "integrate"
                      /\ last.ret < 0
                      /\ last'.ret = last.ret
                      /\ handler.i < handler.n_steps
       /\ (handler.pc = "chunk" /\ handler'.pc = "loop") =>
              /\ last.ret >= 0
              /\ handler'.reuse_forces = INTEG_REUSE_FORCES_ALWAYS
              /\ handler'.i = handler.i + handler.steps
              /\ last'.events = last.events \o <<"auto_update">>
       /\ (handler.pc = "loop" /\ handler'.pc = "chunk" /\ pc' = "init_force") =>
              /\ reuse_forces' = IF handler.i > 0 THEN INTEG_REUSE_FORCES_ALWAYS
                                  ELSE handler.reuse_forces
              /\ n_steps' = handler'.steps
              /\ n_steps' >= 1
              /\ n_steps' <= handler.n_steps - handler.i
       /\ (WrapperReturns /\ ~(handler.update_accumulators /\ handler.n_steps > 0)) =>
              /\ handler.pc = "direct_wait"
              /\ last.op = "integrate"
              /\ last'.ret = last.ret
              /\ handler.chunks = <<handler.n_steps>>]_vars

\* C37 witness: the wrapper has returned 0 after two chunks of one step each,
\* both of which succeeded.
C37_Witness ==
    /\ handler.pc = "idle"
    /\ last.op = "integrate_with_signal_handler"
    /\ last.events = <<1, 1>>
    /\ last.arg = <<2, TRUE>>
    /\ last.ret = 0
    /\ sim_time = 2

\* C37, the failing side: the wrapper has handed on the negative result of
\* its second chunk.
C37_SecondChunkFailed ==
    /\ handler.pc = "idle"
    /\ last.op = "integrate_with_signal_handler"
    /\ last.events = <<1, 1>>
    /\ last.arg = <<2, TRUE>>
    /\ last.ret < 0

\* C38: in single-process mode, if a runtime error and a set interrupt latch are
\* both pending at the same step boundary, integrate returns the runtime-error
\* code and leaves the latch set; the next integrate call with n_steps >= 1, no
\* new signal and no error (a call made with the latch set) then stops after
\* exactly one step with the interrupt code. The latch is likewise left set by
\* calls that never poll it (n_steps = 0, pre-loop error return, steepest-descent
\* early exit, more than one rank): only a call that ends with the interrupt
\* outcome resets it.
C38_ErrorLeavesLatchForNextCall ==
    [][/\ (EndsIteration /\ n_ranks = 1 /\ ctrl_C = 1 /\ caught_error') =>
              /\ pc' = "finish"
              /\ ~caught_sigint'
              /\ ctrl_C' = 1
       /\ (ReturnsAfterLoop /\ caught_error) =>
              /\ last'.ret = INTEG_ERROR_RUNTIME
              /\ ctrl_C' = ctrl_C
       /\ (EndsIteration /\ n_ranks = 1 /\ ctrl_C_at_entry = 1 /\ ~caught_error') =>
              /\ ctrl_C = 1
              /\ step = 0
              /\ integrated_steps' = 1
              /\ caught_sigint'
              /\ pc' = "finish"
       /\ (ReturnsAfterLoop /\ caught_sigint) =>
              /\ last'.ret = INTEG_ERROR_SIGINT
              /\ n_ranks = 1
              /\ ctrl_C = 1
              /\ ctrl_C' = 0
       /\ ctrl_C' # ctrl_C =>
              \/ ctrl_C = 0 /\ ctrl_C' = 1 /\ signal_pending' /\ handler.pc # "idle"
              \/ ctrl_C = 1 /\ ctrl_C' = 0 /\ ReturnsAfterLoop /\ caught_sigint
       /\ (ReturnsAfterLoop /\ (n_steps = 0 \/ n_ranks > 1 \/ integrated_steps = step)) =>
              /\ ~caught_sigint
              /\ ctrl_C' = ctrl_C]_vars

\* C38 witness: in single-process mode an integrate call that was made with
\* the latch set, two steps being requested, has returned the interrupt code
\* after its first step, and the latch is reset.
C38_Witness ==
    /\ pc = "idle"
    /\ n_ranks = 1
    /\ last.op = "integrate"
    /\ last.ret = INTEG_ERROR_SIGINT
    /\ ctrl_C_at_entry = 1
    /\ ctrl_C = 0
    /\ handler.steps = 2
    /\ sim_time = handler.sim_time_at_integrate + time_step

\* C38, first half: in single-process mode an integrate call has returned the
\* runtime-error code after its loop with the latch set.
C38_ErrorReturnedLatchSet ==
    /\ pc = "idle"
    /\ n_ranks = 1
    /\ last.op = "integrate"
    /\ last.events[1] = "update_box_params"
    /\ last.ret = INTEG_ERROR_RUNTIME
    /\ ctrl_C = 1

\* C38, second half: a steepest-descent call made with the latch set has
\* returned after an early exit in its first iteration, the latch still set.
C38_EarlyExitKeepsLatch ==
    /\ pc = "idle"
    /\ n_ranks = 1
    /\ integ_switch = INTEG_METHOD_STEEPEST_DESCENT
    /\ last.op = "integrate"
    /\ last.events[1] = "update_box_params"
    /\ last.ret = 0
    /\ handler.steps = 2
    /\ ctrl_C_at_entry = 1
    /\ ctrl_C = 1

====
